---------------------------- MODULE Spec2Model ----------------------------
(***************************************************************************)
(* Model of the UDP video streamer: the stop-and-wait control channel      *)
(* (client.py ReliableControlSender, server.py VideoServer), the Streamer  *)
(* thread, the client's receiver and player threads with their priority    *)
(* queue, and the offline chunk splitter / verifier.                       *)
(*                                                                         *)
(* Datagrams are sequences of bytes, laid out as struct.pack lays them     *)
(* out.  A 32-bit field is decoded to a pair <<hi16, lo16>> ("word"),      *)
(* because 0xFFFFFFFF does not fit TLC's 32-bit integers.                  *)
(***************************************************************************)
EXTENDS Integers, Sequences, FiniteSets, TLC

\* ------------------------------------------------------------------ bounds
MaxCalls == 2        \* send_reliable_command calls made by the caller
MaxSockLen == 2      \* datagrams a socket queues when the network is lossy
MaxStreamers == 2    \* Streamer objects the server creates
MaxCmds == 3         \* control datagrams a peer injects at the server
PrebufferFrames == 2 \* client.PREBUFFER_FRAMES (10) scaled down: entries before playback
MaxRecords == 2      \* Metrics calls each client thread makes on its own
MaxPlays == 1        \* play_video calls the user makes
MaxIds == 5          \* frame ids put into the reorder buffer on its own
MaxFrameId == 2      \* largest frame id of a data packet that arrives from outside
MaxArrivals == 3     \* datagrams that arrive from outside at the receiver
MaxFileLen == 17     \* bytes of a small source file given to chunk_video
BigChunks == 100001  \* chunks of the large source file given to chunk_video
ChunkSize == 2       \* config.CHUNK_SIZE (4096) scaled down: bytes per segment

\* ------------------------------------------------------- program constants
CMD_PLAY == 1
CMD_STOP == 2
ACK_TYPE == 10
CONTROL_MAX_RETRIES == 5
CONTROL_PACKET_HEADER_SIZE == 9
DATA_PACKET_HEADER_SIZE == 20
CONTROL_PORT == 9000
CHUNK_NAME_WIDTH == 5
END_OF_STREAM_FRAME_ID == <<65535, 65535>>   \* 0xFFFFFFFF as a word

\* An optional value: None, or Some(x) holding x.
None == <<>>
Some(x) == <<x>>
The(o) == o[1]

\* ------------------------------------------------------- bytes and words
\* struct '!I' of a word <<hi16, lo16>>: four bytes, big-endian.
PackU32(w) == <<w[1] \div 256, w[1] % 256, w[2] \div 256, w[2] % 256>>

\* struct '!I' read at byte offset off (0-based) of b.
UnpackU32(b, off) ==
    <<b[off + 1] * 256 + b[off + 2], b[off + 3] * 256 + b[off + 4]>>

\* A Python int in 0 .. 2^31-1 as a word, and back.
Word(n) == <<n \div 65536, n % 65536>>
IntOf(w) == w[1] * 65536 + w[2]

\* Order of two words as unsigned 32-bit numbers.
WordLess(x, y) == x[1] < y[1] \/ (x[1] = y[1] /\ x[2] < y[2])

\* Lexicographic order of byte strings (Python bytes comparison).
RECURSIVE BytesLess(_, _)
BytesLess(x, y) ==
    IF y = <<>> THEN FALSE
    ELSE IF x = <<>> THEN TRUE
    ELSE IF Head(x) # Head(y) THEN Head(x) < Head(y)
    ELSE BytesLess(Tail(x), Tail(y))

\* struct.pack('!BII', t, s, n) and struct.pack('!BI', t, s)
Pack_BII(t, s, n) == <<t>> \o PackU32(s) \o PackU32(n)
Pack_BI(t, s) == <<t>> \o PackU32(s)

\* zlib.adler32(data) & 0xFFFFFFFF, as the word <<b, a>>.
RECURSIVE AdlerFrom(_, _, _)
AdlerFrom(data, a, b) ==
    IF data = <<>> THEN <<b, a>>
    ELSE AdlerFrom(Tail(data), (a + Head(data)) % 65521,
                   (b + ((a + Head(data)) % 65521)) % 65521)

adler32(data) == AdlerFrom(data, 1, 0)


\* ------------------------------------------------------------ text payload
IsSpace(c) == c \in {9, 10, 11, 12, 13, 32}
IsDigit(c) == c \in 48..57

\* str.split(): the whitespace-separated tokens of s, left to right.
RECURSIVE SplitFrom(_, _, _)
SplitFrom(s, cur, acc) ==
    IF s = <<>> THEN (IF cur = <<>> THEN acc ELSE Append(acc, cur))
    ELSE IF IsSpace(Head(s))
         THEN SplitFrom(Tail(s), <<>>, IF cur = <<>> THEN acc ELSE Append(acc, cur))
         ELSE SplitFrom(Tail(s), Append(cur, Head(s)), acc)

Split(s) == SplitFrom(s, <<>>, <<>>)

\* int(tok) of a decimal token; IsInt is FALSE where int() raises ValueError.
IsInt(tok) == tok # <<>> /\ \A i \in 1..Len(tok) : IsDigit(tok[i])

RECURSIVE IntFrom(_, _)
IntFrom(tok, acc) ==
    IF tok = <<>> THEN acc ELSE IntFrom(Tail(tok), acc * 10 + (Head(tok) - 48))

ParseInt(tok) == IntFrom(tok, 0)

\* --------------------------------------------------------------- the assets
\* The files of SOURCE_DIR: "a" holds three bytes (two segments, the last one
\* short); no other name exists.
AssetA == <<97>>
AssetMissing == <<109>>
AssetB == <<98>>
\* A server that takes every name for a file that exists.
ExistsAny(name) == TRUE

\* os.path.exists(video_path)
Exists(name) == name \in {AssetA, AssetB}
FileData(name) ==
    IF name = AssetA THEN <<0, 48, 3>> ELSE IF name = AssetB THEN <<3>> ELSE <<>>

\* math.ceil(file_size / CHUNK_SIZE)
TotalChunks(name) == (Len(FileData(name)) + ChunkSize - 1) \div ChunkSize

\* "<filename> <port>".encode('utf-8'), port 9000
PlayPayload(name) == name \o <<32, 57, 48, 48, 48>>

\* ------------------------------------------------------------------- state
VARIABLES
    seq_num,              \* ReliableControlSender.seq_num
    call,                 \* the send_reliable_command call in progress
    srv_sock,             \* datagrams queued on the server's socket
    cli_sock,             \* datagrams queued on the client's socket
    net_lossy,            \* whether the network may lose a datagram
    env_sent,             \* datagrams a peer outside the model has sent
    stream_thread,        \* VideoServer.stream_thread: None or Some(Streamer index)
    current_client_addr,  \* VideoServer.current_client_addr: None or Some(data port)
    has_active_stream,    \* VideoServer.has_active_stream
    listener,             \* the listener thread: where it is, what it handles
    streamers,            \* every Streamer thread created, in creation order
    conn_hash,            \* hash(client address) & 0xFFFFFFFF in this process
    is_playing,           \* VideoClient.is_playing
    is_receiving,         \* VideoClient.is_receiving
    stream_ended,         \* VideoClient.stream_ended
    expected_frame_id,    \* VideoClient.expected_frame_id, as a word
    conn_id,              \* VideoClient.conn_id: None or Some(word)
    total_frames,         \* VideoClient.total_frames
    frame_queue,          \* VideoClient.frame_queue: the heap list of the PriorityQueue
    metrics,              \* VideoClient.metrics: the counters
    receiver,             \* the udp_receiver thread: where it is
    player,               \* the video_player thread: where it is
    old_player,           \* the video_player thread of the session before
    app,                  \* the thread that calls play_video: where it is
    tool,                 \* chunk_video / verify_chunks: the files and the verdict
    sender_lock,          \* ReliableControlSender.lock: None or Some(holder)
    threads,              \* threads inside a `with self.lock:` block: where they are
    hist                  \* history: what was executed, delivered, extracted, played

senderVars == <<seq_num, call>>
envVars == <<net_lossy, env_sent>>
netVars == <<srv_sock, cli_sock, envVars>>
serverVars == <<stream_thread, current_client_addr, has_active_stream,
                listener, streamers, conn_hash>>
clientVars == <<is_playing, is_receiving, stream_ended, expected_frame_id, conn_id,
                total_frames, frame_queue, metrics, receiver, player, old_player,
                app>>
lockVars == <<sender_lock, threads>>
vars == <<senderVars, netVars, serverVars, clientVars, tool, lockVars, hist>>

Max(a, b) == IF a > b THEN a ELSE b

Seqs == 0..(Max(MaxCalls, MaxCmds) - 1)

\* The network delivers a datagram or, when lossy, may lose it.
LossChoices == IF net_lossy THEN {FALSE, TRUE} ELSE {FALSE}

Bump(f, k) == [f EXCEPT ![k] = @ + 1]

\* A datagram put on a socket's queue; a lossy network also loses it when
\* the queue already holds MaxSockLen datagrams.
Enqueue(sock, pkt, lost) ==
    IF lost \/ (net_lossy /\ Len(sock) >= MaxSockLen) THEN sock ELSE Append(sock, pkt)

\* ------------------------------------------------------------ compression
\* zlib.compress / zlib.decompress on the byte strings the model uses: each
\* pair is <<data, zlib.compress(data)>> as CPython's zlib produces it.  The
\* streams of <<0, 48>> and <<224, 93>> have the same length and the same
\* Adler-32.  Any other stream makes zlib.decompress raise zlib.error.
ZlibTable ==
    { <<<<0, 48>>, <<120, 156, 99, 48, 0, 0, 0, 50, 0, 49>>>>,
      <<<<3>>, <<120, 156, 99, 6, 0, 0, 4, 0, 4>>>>,
      <<<<0, 48, 3>>, <<120, 156, 99, 48, 96, 6, 0, 0, 102, 0, 52>>>>,
      <<<<224, 93>>, <<120, 156, 123, 16, 11, 0, 2, 31, 1, 62>>>> }

compress(data) == (CHOOSE p \in ZlibTable : p[1] = data)[2]
CanDecompress(stream) == \E p \in ZlibTable : p[2] = stream
decompress(stream) == (CHOOSE p \in ZlibTable : p[2] = stream)[1]

\* struct.pack('!f', k * (1000 / VIDEO_FPS)) for the frame index k.
PackPts(k) ==
    CASE k = 0 -> <<0, 0, 0, 0>>
      [] k = 1 -> <<66, 38, 170, 171>>
      [] k = 2 -> <<66, 166, 170, 171>>
      [] k = 3 -> <<66, 250, 0, 0>>
      [] k = 4 -> <<67, 38, 170, 171>>
      [] OTHER -> <<67, 80, 85, 85>>

\* ------------------------------------------------------------ frame source
\* VideoChunker: reads the asset in ChunkSize slices, counts the frames.
NewChunker(name) == [video |-> name, frame_id |-> 0, pos |-> 0]

Min(a, b) == IF a < b THEN a ELSE b

\* next_frame(): <<data, pts index, is_last, the chunker afterwards>>
next_frame(ch) ==
    LET file == FileData(ch.video)
        stop == Min(ch.pos + ChunkSize, Len(file))
        data == SubSeq(file, ch.pos + 1, stop)
    IN  <<data, ch.frame_id, stop >= Len(file),
          [ch EXCEPT !.frame_id = @ + 1, !.pos = stop]>>

\* ---------------------------------------------------------------- Streamer
\* Streamer.__init__ followed by start()
NewStreamer(port, name) ==
    [pc |-> "check", stop_event |-> FALSE, chunker |-> Some(NewChunker(name)),
     conn_id |-> conn_hash, port |-> port, pkt |-> <<>>, is_last |-> FALSE,
     sent |-> <<>>]

\* Streamer.stop()
stop(s) == [s EXCEPT !.stop_event = TRUE, !.chunker = None]

\* Thread.is_alive() of stream_thread
is_alive(t) == t # None /\ streamers[The(t)].pc \notin {"done", "crashed"}

\* the data packet of Streamer.run: header '!IIfII' + compressed data
DataPacket(conn, frame_id, ptsk, compressed) ==
    PackU32(conn) \o PackU32(frame_id) \o PackPts(ptsk)
        \o PackU32(Word(Len(compressed))) \o PackU32(adler32(compressed))
        \o compressed

\* send_end_of_stream_marker's packet
EndOfStreamPacket(conn) ==
    PackU32(conn) \o PackU32(END_OF_STREAM_FRAME_ID) \o PackPts(0)
        \o PackU32(Word(0)) \o PackU32(Word(0))

\* sock.sendto(pkt, client_addr) from the server: the datagram reaches the
\* client's socket when the port is the one that socket is bound to.
ToClient(sock, pkt, port, lost) ==
    IF port # CONTROL_PORT THEN sock ELSE Enqueue(sock, pkt, lost)

StreamerCheck(i) ==
    /\ UNCHANGED lockVars
    /\ streamers[i].pc = "check"
    /\ streamers' = [streamers EXCEPT ![i].pc =
                        IF streamers[i].stop_event THEN "eos" ELSE "read"]
    /\ UNCHANGED <<senderVars, netVars, stream_thread, current_client_addr,
                   has_active_stream, listener, conn_hash, hist, clientVars, tool>>

StreamerRead(i) ==
    /\ UNCHANGED lockVars
    /\ streamers[i].pc = "read"
    /\ LET s == streamers[i] IN
       IF s.chunker = None
       THEN \* self.chunker.next_frame() on None: the thread dies
            streamers' = [streamers EXCEPT ![i].pc = "crashed"]
       ELSE LET nf == next_frame(The(s.chunker)) IN
            IF nf[1] = <<>>
            THEN streamers' = [streamers EXCEPT ![i] = [stop(s) EXCEPT !.pc = "eos"]]
            ELSE streamers' = [streamers EXCEPT ![i] =
                    [s EXCEPT !.pc = "send", !.chunker = Some(nf[4]), !.is_last = nf[3],
                              !.pkt = DataPacket(s.conn_id, Word(nf[4].frame_id - 1),
                                                 nf[2], compress(nf[1]))]]
    /\ UNCHANGED <<senderVars, netVars, stream_thread, current_client_addr,
                   has_active_stream, listener, conn_hash, hist, clientVars, tool>>

StreamerSend(i) ==
    /\ UNCHANGED lockVars
    /\ streamers[i].pc = "send"
    /\ \E lost \in LossChoices :
          cli_sock' = ToClient(cli_sock, streamers[i].pkt, streamers[i].port, lost)
    /\ streamers' = [streamers EXCEPT ![i] =
            IF streamers[i].is_last
            THEN [stop(streamers[i]) EXCEPT !.pc = "eos", !.pkt = <<>>,
                        !.sent = Append(@, "final")]
            ELSE [streamers[i] EXCEPT !.pc = "check", !.pkt = <<>>,
                        !.sent = Append(@, "data")]]
    /\ UNCHANGED <<senderVars, srv_sock, envVars, stream_thread,
                   current_client_addr, has_active_stream, listener, conn_hash, hist, clientVars, tool>>

\* send_end_of_stream_marker followed by a return to the loop test instead of
\* the end of run
StreamerEosRepeated(i) ==
    /\ UNCHANGED lockVars
    /\ streamers[i].pc = "eos"
    /\ \E lost \in LossChoices :
          cli_sock' = ToClient(cli_sock, EndOfStreamPacket(streamers[i].conn_id),
                               streamers[i].port, lost)
    /\ streamers' = [streamers EXCEPT ![i].pc = "check", ![i].sent = Append(@, "eos")]
    /\ UNCHANGED <<senderVars, srv_sock, envVars, stream_thread,
                   current_client_addr, has_active_stream, listener, conn_hash, hist, clientVars, tool>>

StreamerEos(i) ==
    /\ UNCHANGED lockVars
    /\ streamers[i].pc = "eos"
    /\ \E lost \in LossChoices :
          cli_sock' = ToClient(cli_sock, EndOfStreamPacket(streamers[i].conn_id),
                               streamers[i].port, lost)
    /\ streamers' = [streamers EXCEPT ![i].pc = "exit", ![i].sent = Append(@, "eos")]
    /\ UNCHANGED <<senderVars, srv_sock, envVars, stream_thread,
                   current_client_addr, has_active_stream, listener, conn_hash, hist, clientVars, tool>>

\* The end of run: after the marker is sent the thread prints its last line and
\* ends; until then is_alive() of the thread is True.
StreamerExit(i) ==
    /\ UNCHANGED lockVars
    /\ streamers[i].pc = "exit"
    /\ streamers' = [streamers EXCEPT ![i].pc = "done"]
    /\ UNCHANGED <<senderVars, srv_sock, cli_sock, envVars, stream_thread,
                   current_client_addr, has_active_stream, listener, conn_hash, hist, clientVars, tool>>

\* ------------------------------------------------------------- VideoServer
\* send_control_ack's datagram: total_chunks is None or a count.
AckPacket(ack_seq, total_chunks) ==
    IF total_chunks # None
    THEN Pack_BII(ACK_TYPE, ack_seq, Word(The(total_chunks)))
    ELSE Pack_BI(ACK_TYPE, ack_seq)

\* The rest of handle_control_command once the listener holds its answer:
\* the new server fields, then send_control_ack unless an exception was
\* raised (ack = "none").  r.exec says a Streamer was started (line 244): its
\* thread runs from then on, and the acknowledgment of line 264 is a step of
\* its own (ListenerAck).
Finish(pkt, r) ==
    LET seq == UnpackU32(pkt, 1)
        k == IntOf(seq) IN
    /\ stream_thread' = r.st
    /\ current_client_addr' = r.addr
    /\ has_active_stream' = r.active
    /\ streamers' = r.strs
    /\ IF r.ack = "none"
       THEN /\ cli_sock' = cli_sock
            /\ listener' = [pc |-> "recv", pkt |-> <<>>, total |-> None]
            /\ hist' = [hist EXCEPT !.handled = pkt]
       ELSE IF r.exec
       THEN /\ cli_sock' = cli_sock
            /\ listener' = [pc |-> "ack", pkt |-> pkt, total |-> r.total]
            /\ hist' = [hist EXCEPT !.executed = Bump(@, k)]
       ELSE \E lost \in LossChoices :
            /\ cli_sock' = Enqueue(cli_sock, AckPacket(seq, r.total), lost)
            /\ listener' = [pc |-> "recv", pkt |-> <<>>, total |-> None]
            /\ hist' = [hist EXCEPT
                          !.handled = pkt,
                          !.acks_delivered =
                              IF cli_sock' = cli_sock THEN @ ELSE Bump(@, k)]

\* PLAY after the old stream_thread was cleaned up (lines 218-246): parse the
\* payload, check the file, create and start the Streamer.
PlayFresh(pkt, strs) ==
    LET parts == Split(SubSeq(pkt, CONTROL_PACKET_HEADER_SIZE + 1, Len(pkt)))
        base == [st |-> None, addr |-> current_client_addr,
                 active |-> has_active_stream, strs |-> strs,
                 ack |-> "plain", total |-> None, exec |-> FALSE] IN
    IF Len(parts) < 2 \/ ~IsInt(parts[2])
    THEN [base EXCEPT !.ack = "none"]        \* IndexError / ValueError
    ELSE IF ~Exists(parts[1])
    THEN base
    ELSE [base EXCEPT !.st = Some(Len(strs) + 1),
                      !.addr = Some(ParseInt(parts[2])),
                      !.active = TRUE,
                      !.strs = Append(strs, NewStreamer(ParseInt(parts[2]), parts[1])),
                      !.total = Some(TotalChunks(parts[1])),
                      !.exec = TRUE]

\* STOP once stop()/join() are over (lines 254-256)
StopDone(strs) ==
    [st |-> None, addr |-> None, active |-> FALSE, strs |-> strs,
     ack |-> "plain", total |-> None, exec |-> FALSE]

\* Nothing changes, the command is acknowledged without metadata.
AckOnly ==
    [st |-> stream_thread, addr |-> current_client_addr,
     active |-> has_active_stream, strs |-> streamers,
     ack |-> "plain", total |-> None, exec |-> FALSE]

\* Whether handling pkt would construct a Streamer.
StartsStreamer(pkt) == PlayFresh(pkt, streamers).exec

\* start_listener: one datagram off the socket, then handle_control_command
\* up to its acknowledgment or up to a join() of the running Streamer.
ListenerRecv ==
    /\ UNCHANGED lockVars
    /\ listener.pc = "recv"
    /\ srv_sock # <<>>
    /\ srv_sock' = Tail(srv_sock)
    /\ UNCHANGED <<senderVars, envVars, conn_hash, clientVars, tool>>
    /\ LET pkt == Head(srv_sock)
           cmd_type == pkt[1]
           k == IntOf(UnpackU32(pkt, 1)) IN
       IF Len(pkt) < CONTROL_PACKET_HEADER_SIZE
       THEN UNCHANGED <<cli_sock, stream_thread, current_client_addr,
                        has_active_stream, listener, streamers, hist>>
       ELSE IF cmd_type = CMD_PLAY
       THEN IF has_active_stream /\ is_alive(stream_thread)
            THEN Finish(pkt, AckOnly)
            ELSE IF is_alive(stream_thread)
            THEN /\ streamers' = [streamers EXCEPT ![The(stream_thread)] = stop(@)]
                 /\ listener' = [pc |-> "join", pkt |-> pkt, total |-> None]
                 /\ UNCHANGED <<cli_sock, stream_thread, current_client_addr,
                                has_active_stream, hist>>
            ELSE /\ StartsStreamer(pkt) => Len(streamers) < MaxStreamers
                 /\ Finish(pkt, PlayFresh(pkt, streamers))
       ELSE IF cmd_type = CMD_STOP
       THEN IF ~has_active_stream
            THEN Finish(pkt, AckOnly)
            ELSE IF is_alive(stream_thread)
            THEN /\ streamers' = [streamers EXCEPT ![The(stream_thread)] = stop(@)]
                 /\ listener' = [pc |-> "join", pkt |-> pkt, total |-> None]
                 /\ hist' = [hist EXCEPT !.executed = Bump(@, k)]
                 /\ UNCHANGED <<cli_sock, stream_thread, current_client_addr,
                                has_active_stream>>
            ELSE Finish(pkt, StopDone(streamers))
       ELSE Finish(pkt, AckOnly)

\* stream_thread.join(timeout=...) returns: the Streamer ended, or the
\* timeout ran out with the Streamer still alive.
ListenerJoin ==
    /\ UNCHANGED lockVars
    /\ listener.pc = "join"
    /\ UNCHANGED <<senderVars, srv_sock, envVars, conn_hash, clientVars, tool>>
    /\ IF listener.pkt[1] = CMD_PLAY
       THEN /\ StartsStreamer(listener.pkt) => Len(streamers) < MaxStreamers
            /\ Finish(listener.pkt, PlayFresh(listener.pkt, streamers))
       ELSE Finish(listener.pkt, StopDone(streamers))

\* lines 263-264: send_control_ack after a Streamer was started
ListenerAck ==
    /\ UNCHANGED lockVars
    /\ listener.pc = "ack"
    /\ LET seq == UnpackU32(listener.pkt, 1) IN
       \E lost \in LossChoices :
          /\ cli_sock' = Enqueue(cli_sock, AckPacket(seq, listener.total), lost)
          /\ hist' = [hist EXCEPT
                        !.handled = listener.pkt,
                        !.acks_delivered =
                            IF cli_sock' = cli_sock THEN @ ELSE Bump(@, IntOf(seq))]
    /\ listener' = [pc |-> "recv", pkt |-> <<>>, total |-> None]
    /\ UNCHANGED <<senderVars, srv_sock, envVars, stream_thread, current_client_addr,
                   has_active_stream, streamers, conn_hash, clientVars, tool>>

\* --------------------------------------------------- ReliableControlSender
\* The commands a caller hands to send_reliable_command.
Commands ==
    { <<CMD_PLAY, PlayPayload(AssetA)>>,        \* "a 9000"
      <<CMD_PLAY, PlayPayload(AssetMissing)>>,  \* "m 9000": no such file
      <<CMD_PLAY, AssetA>>,                     \* "a": no port
      <<CMD_STOP, <<>>>>,
      <<3, <<>>>> }                             \* a type the server does not know

CtrlCommands == { <<CMD_PLAY, PlayPayload(AssetB)>>, <<CMD_STOP, <<>>>> }

IdleCall ==
    [pc |-> "idle", cmd_type |-> 0, packet |-> <<>>, current_seq |-> 0,
     attempt |-> 0, tx |-> 0, ok |-> FALSE, total_chunks |-> None,
     got |-> <<>>,        \* history: the datagram that confirmed the command
     rejects |-> 0,       \* history: replies received and not taken for it
     delivered |-> 0,     \* history: its acknowledgments delivered by the return
     raised |-> FALSE]    \* history: sendto or recvfrom raised a transport error

\* lines 96-103: take the sequence number under the lock, build the packet
StartCall(cmd_type, payload) ==
    /\ UNCHANGED lockVars
    /\ call.pc \in {"idle", "ret"}
    /\ seq_num < MaxCalls
    /\ seq_num' = seq_num + 1
    /\ call' = [IdleCall EXCEPT
                  !.pc = "send", !.cmd_type = cmd_type, !.current_seq = seq_num,
                  !.packet = Pack_BII(cmd_type, Word(seq_num), Word(Len(payload)))
                                \o payload]
    /\ UNCHANGED <<netVars, serverVars, hist, tool>>

\* send_reliable_command called on its own, outside play_video / stop_video
CallStart(cmd_type, payload) ==
    /\ StartCall(cmd_type, payload)
    /\ UNCHANGED clientVars

\* line 109: sendto(packet, server_addr)
CallSend ==
    /\ UNCHANGED lockVars
    /\ call.pc = "send"
    /\ \E lost \in LossChoices :
          srv_sock' = Enqueue(srv_sock, call.packet, lost)
    /\ call' = [call EXCEPT !.pc = "wait", !.tx = @ + 1]
    /\ UNCHANGED <<seq_num, cli_sock, envVars, serverVars, hist, clientVars, tool>>

\* The for loop goes to its next attempt, or ends: return (False, None).
NextAttempt(c) ==
    IF c.attempt + 1 < CONTROL_MAX_RETRIES
    THEN [c EXCEPT !.pc = "send", !.attempt = @ + 1]
    ELSE [c EXCEPT !.pc = "ret", !.attempt = @ + 1, !.ok = FALSE,
                   !.total_chunks = None,
                   !.delivered = hist.acks_delivered[c.current_seq]]

\* lines 119-126: what the reply unpacks to, <<ack_type, acked_seq, total_chunks>>
UnpackAck(ack_data) ==
    IF Len(ack_data) >= 9
    THEN <<ack_data[1], UnpackU32(ack_data, 1), Some(UnpackU32(ack_data, 5))>>
    ELSE <<ack_data[1], UnpackU32(ack_data, 1), None>>

\* A sender that takes any acknowledgment, whatever sequence number it echoes.
AckMatchesAnySeq(ack_data, current_seq) ==
    UnpackAck(ack_data)[1] = ACK_TYPE

\* line 129: the reply confirms the command
AckMatches(ack_data, current_seq) ==
    /\ UnpackAck(ack_data)[1] = ACK_TYPE
    /\ UnpackAck(ack_data)[2] = Word(current_seq)

\* lines 115-135: recvfrom returns a datagram
CallRecv ==
    /\ UNCHANGED lockVars
    /\ call.pc = "wait"
    /\ cli_sock # <<>>
    /\ cli_sock' = Tail(cli_sock)
    /\ LET ack_data == Head(cli_sock) IN
       call' = IF Len(ack_data) >= 5 /\ AckMatches(ack_data, call.current_seq)
               THEN [call EXCEPT !.pc = "ret", !.ok = TRUE, !.got = ack_data,
                                 !.total_chunks = UnpackAck(ack_data)[3],
                                 !.delivered = hist.acks_delivered[call.current_seq]]
               ELSE [NextAttempt(call) EXCEPT !.rejects = @ + 1]
    /\ UNCHANGED <<seq_num, srv_sock, envVars, serverVars, hist, clientVars, tool>>

\* lines 137-138: socket.timeout, nothing arrived within the window
CallTimeout ==
    /\ UNCHANGED lockVars
    /\ call.pc = "wait"
    /\ cli_sock = <<>>
    /\ call' = NextAttempt(call)
    /\ UNCHANGED <<seq_num, netVars, serverVars, hist, clientVars, tool>>

\* A sender that takes a transport error for a timeout and tries again.
CallErrorRetried ==
    /\ UNCHANGED lockVars
    /\ call.pc \in {"send", "wait"}
    /\ call' = [NextAttempt(call) EXCEPT !.raised = TRUE]
    /\ UNCHANGED <<seq_num, netVars, serverVars, hist, clientVars, tool>>

\* lines 139-141: sendto or recvfrom raises an error that is no timeout; the
\* loop is left, return (False, None).
CallError ==
    /\ UNCHANGED lockVars
    /\ call.pc \in {"send", "wait"}
    /\ call' = [call EXCEPT !.pc = "ret", !.ok = FALSE, !.total_chunks = None,
                            !.raised = TRUE,
                            !.delivered = hist.acks_delivered[call.current_seq]]
    /\ UNCHANGED <<seq_num, netVars, serverVars, hist, clientVars, tool>>

\* ----------------------------------------------------------------- Metrics
\* Metrics.__init__: the counters
NewMetrics ==
    [frame_count |-> 0, bytes_received |-> 0, loss_count |-> 0, bytes_delivered |-> 0,
     lock |-> None, playback_start_time |-> None, playback_end_time |-> None]

record_frame(m, size) ==
    [m EXCEPT !.frame_count = @ + 1, !.bytes_received = @ + size]

record_loss(m) == [m EXCEPT !.loss_count = @ + 1]

record_delivery(m, bytes_count) == [m EXCEPT !.bytes_delivered = @ + bytes_count]

\* set_playback_start and set_playback_end: now stands for time.time().  The
\* clock is read as the number of the session the reader belongs to, so two
\* readings in different sessions differ.
set_playback_start(m, now) ==
    IF m.playback_start_time = None
    THEN [m EXCEPT !.playback_start_time = Some(now)] ELSE m

set_playback_end(m, now) ==
    IF m.playback_end_time = None
    THEN [m EXCEPT !.playback_end_time = Some(now)] ELSE m

reset_goodput_tracking(m) ==
    [m EXCEPT !.bytes_delivered = 0, !.playback_start_time = None,
              !.playback_end_time = None]

\* print_metrics, lines 535-542: the counts it reports
print_metrics(m) ==
    [total_frames_played |-> m.frame_count,
     total_frames_dropped |-> m.loss_count,
     total_stalls |-> 0]

\* --------------------------------------------------------- locked sections
\* A thread outside any call: where it is, the method and argument of its
\* call, the statement it is at, the value it has loaded, the value of its
\* local current_seq, and how many calls it has made.
IdleThread ==
    [pc |-> "idle", op |-> "none", arg |-> 0, stmt |-> 0, reg |-> 0,
     current_seq |-> 0, calls |-> 0]

\* The threads that call send_reliable_command on one sender.
Callers == {"main", "other"}

\* A lock that lets every thread in.
SenderLockIgnored == TRUE

\* line 96: `with self.lock:` of the sender can be entered
SenderLockFree == sender_lock = None

\* send_reliable_command is called by thread t
SeqCall(t) ==
    /\ threads[t].pc = "idle"
    /\ threads[t].calls < MaxCalls
    /\ threads' = [threads EXCEPT ![t].pc = "acquire", ![t].calls = @ + 1]
    /\ UNCHANGED <<senderVars, sender_lock, netVars, serverVars, clientVars, tool, hist>>

\* line 96: the lock is taken
SeqAcquire(t) ==
    /\ threads[t].pc = "acquire"
    /\ SenderLockFree
    /\ sender_lock' = Some(t)
    /\ threads' = [threads EXCEPT ![t].pc = "read"]
    /\ UNCHANGED <<senderVars, netVars, serverVars, clientVars, tool, hist>>

\* line 97: current_seq = self.seq_num
SeqRead(t) ==
    /\ threads[t].pc = "read"
    /\ threads' = [threads EXCEPT ![t].pc = "load", ![t].current_seq = seq_num]
    /\ hist' = [hist EXCEPT !.assigned = Append(@, seq_num)]
    /\ UNCHANGED <<senderVars, sender_lock, netVars, serverVars, clientVars, tool>>

\* line 98, self.seq_num += 1: the value is loaded
SeqLoad(t) ==
    /\ threads[t].pc = "load"
    /\ threads' = [threads EXCEPT ![t].pc = "store", ![t].reg = seq_num]
    /\ UNCHANGED <<senderVars, sender_lock, netVars, serverVars, clientVars, tool, hist>>

\* line 98, self.seq_num += 1: the sum is stored
SeqStore(t) ==
    /\ threads[t].pc = "store"
    /\ seq_num' = threads[t].reg + 1
    /\ threads' = [threads EXCEPT ![t].pc = "release"]
    /\ UNCHANGED <<call, sender_lock, netVars, serverVars, clientVars, tool, hist>>

\* the end of the with block: the lock is released, the call goes on with
\* its own current_seq
SeqRelease(t) ==
    /\ threads[t].pc = "release"
    /\ sender_lock' = None
    /\ threads' = [threads EXCEPT ![t].pc = "idle"]
    /\ UNCHANGED <<senderVars, netVars, serverVars, clientVars, tool, hist>>

\* The client threads that update the Metrics object, and the calls each
\* makes: <<method, argument>>.
Recorders == {"receiver", "player"}

RecorderCalls(t) ==
    IF t = "receiver"
    THEN { <<"record_frame", 1>>, <<"record_frame", 2>>, <<"record_loss", 0>> }
    ELSE { <<"record_loss", 0>>, <<"record_delivery", 1>>, <<"record_delivery", 2>> }

\* The `+=` statements of a Metrics method in order: <<attribute, amount>>.
Statements(op, arg) ==
    CASE op = "record_frame" -> << <<"frame_count", 1>>, <<"bytes_received", arg>> >>
      [] op = "record_loss" -> << <<"loss_count", 1>> >>
      [] OTHER -> << <<"bytes_delivered", arg>> >>

\* What the method does to the counters when nothing interleaves with it.
Recorded(m, op, arg) ==
    CASE op = "record_frame" -> record_frame(m, arg)
      [] op = "record_loss" -> record_loss(m)
      [] OTHER -> record_delivery(m, arg)

\* A Metrics lock that lets every thread in.
MetricsLockIgnored(m) == TRUE

\* `with self.lock:` of the Metrics object can be entered
MetricsLockFree(m) == m.lock = None

\* The variables of the client no Metrics method touches.
sessionVars ==
    <<is_playing, is_receiving, stream_ended, expected_frame_id, conn_id,
      total_frames, frame_queue, receiver, player, old_player, app>>

\* thread t calls a Metrics method
MetricsCall(t, op, arg) ==
    /\ threads[t].pc = "idle"
    /\ threads[t].calls < MaxRecords
    /\ threads' = [threads EXCEPT ![t] = [@ EXCEPT !.pc = "acquire", !.op = op,
                                                  !.arg = arg, !.stmt = 1,
                                                  !.calls = @ + 1]]
    /\ hist' = [hist EXCEPT !.expected = Recorded(@, op, arg)]
    /\ UNCHANGED <<senderVars, sender_lock, netVars, serverVars, metrics,
                   sessionVars, tool>>

\* with self.lock: the lock is taken
MetricsAcquire(t) ==
    /\ threads[t].pc = "acquire"
    /\ MetricsLockFree(metrics)
    /\ metrics' = [metrics EXCEPT !.lock = Some(t)]
    /\ threads' = [threads EXCEPT ![t].pc = "load"]
    /\ UNCHANGED <<senderVars, sender_lock, netVars, serverVars, sessionVars,
                   tool, hist>>

\* self.<attribute> += amount: the value is loaded
MetricsLoad(t) ==
    /\ threads[t].pc = "load"
    /\ LET st == Statements(threads[t].op, threads[t].arg)[threads[t].stmt] IN
       threads' = [threads EXCEPT ![t].pc = "store", ![t].reg = metrics[st[1]]]
    /\ UNCHANGED <<senderVars, sender_lock, netVars, serverVars, metrics,
                   sessionVars, tool, hist>>

\* self.<attribute> += amount: the sum is stored; the next statement of the
\* method follows, or the end of the with block
MetricsStore(t) ==
    /\ threads[t].pc = "store"
    /\ LET sts == Statements(threads[t].op, threads[t].arg)
           st == sts[threads[t].stmt] IN
       /\ metrics' = [metrics EXCEPT ![st[1]] = threads[t].reg + st[2]]
       /\ threads' = IF threads[t].stmt < Len(sts)
                     THEN [threads EXCEPT ![t].pc = "load", ![t].stmt = @ + 1]
                     ELSE [threads EXCEPT ![t].pc = "release"]
    /\ UNCHANGED <<senderVars, sender_lock, netVars, serverVars, sessionVars,
                   tool, hist>>

\* the end of the with block: the lock is released
MetricsRelease(t) ==
    /\ threads[t].pc = "release"
    /\ metrics' = [metrics EXCEPT !.lock = None]
    /\ threads' = [threads EXCEPT ![t].pc = "idle"]
    /\ UNCHANGED <<senderVars, sender_lock, netVars, serverVars, sessionVars,
                   tool, hist>>

\* ------------------------------------------------------------- frame_queue
\* queue.PriorityQueue keeps a heapq list of (frame_id, frame_data) tuples; a
\* heap position p of Python is index p + 1 here.
\* (frame_id, frame_data) < (frame_id, frame_data) of Python tuples
ItemLess(x, y) ==
    \/ WordLess(x[1], y[1])
    \/ x[1] = y[1] /\ BytesLess(x[2], y[2])

\* heapq._siftdown(heap, startpos, pos) with newitem = heap[pos]
RECURSIVE siftdown(_, _, _, _)
siftdown(heap, startpos, pos, newitem) ==
    IF pos > startpos
    THEN LET parentpos == (pos - 1) \div 2
             parent == heap[parentpos + 1] IN
         IF ItemLess(newitem, parent)
         THEN siftdown([heap EXCEPT ![pos + 1] = parent], startpos, parentpos, newitem)
         ELSE [heap EXCEPT ![pos + 1] = newitem]
    ELSE [heap EXCEPT ![pos + 1] = newitem]

\* PriorityQueue.put -> heapq.heappush, FIFO instead of a heap
heappush_fifo(heap, item) == Append(heap, item)

\* PriorityQueue.put -> heapq.heappush(heap, item)
heappush(heap, item) ==
    siftdown(Append(heap, item), 0, Len(heap), item)

\* the while loop of heapq._siftup: the smaller child moves up until a leaf
RECURSIVE siftup_loop(_, _, _)
siftup_loop(heap, pos, childpos) ==
    IF childpos < Len(heap)
    THEN LET rightpos == childpos + 1
             c == IF rightpos < Len(heap)
                        /\ ~ItemLess(heap[childpos + 1], heap[rightpos + 1])
                  THEN rightpos ELSE childpos IN
         siftup_loop([heap EXCEPT ![pos + 1] = heap[c + 1]], c, 2 * c + 1)
    ELSE <<heap, pos>>

\* heapq._siftup(heap, 0)
siftup(heap) ==
    LET newitem == heap[1]
        r == siftup_loop(heap, 0, 1) IN
    siftdown(r[1], 0, r[2], newitem)

\* PriorityQueue.get -> heapq.heappop(heap): <<item, heap afterwards>>
heappop(heap) ==
    LET lastelt == heap[Len(heap)]
        rest == SubSeq(heap, 1, Len(heap) - 1) IN
    IF rest # <<>>
    THEN <<rest[1], siftup([rest EXCEPT ![1] = lastelt])>>
    ELSE <<lastelt, <<>>>>

\* ------------------------------------------------------------- VideoClient
WordSucc(w) == IF w[2] = 65535 THEN <<w[1] + 1, 0>> ELSE <<w[1], w[2] + 1>>

\* play_video up to its reliable PLAY (lines 207-214)
PlayVideo(name) ==
    /\ app.pc \in {"idle", "started"}
    /\ ~is_playing
    /\ StartCall(CMD_PLAY, PlayPayload(name))
    /\ app' = [pc |-> "play", name |-> name, plays |-> app.plays + 1]
    /\ UNCHANGED <<is_playing, is_receiving, stream_ended, expected_frame_id, conn_id,
                   total_frames, frame_queue, metrics, receiver, player, old_player>>

\* play_video once send_reliable_command has returned (lines 214-270)
PlayVideoReturn ==
    /\ UNCHANGED lockVars
    /\ app.pc = "play"
    /\ call.pc = "ret"
    /\ IF ~call.ok
       THEN /\ app' = [app EXCEPT !.pc = "idle"]
            /\ UNCHANGED <<is_playing, is_receiving, stream_ended, expected_frame_id,
                           conn_id, total_frames, frame_queue, metrics, receiver, player, old_player>>
       ELSE /\ app' = [app EXCEPT !.pc = "started"]
            /\ total_frames' = IF call.total_chunks # None
                                    /\ The(call.total_chunks) # Word(0)
                               THEN IntOf(The(call.total_chunks)) ELSE 0
            /\ metrics' = reset_goodput_tracking(metrics)
            /\ is_playing' = TRUE
            /\ is_receiving' = TRUE
            /\ stream_ended' = FALSE
            /\ expected_frame_id' = Word(0)
            /\ conn_id' = None
            /\ frame_queue' = <<>>
            /\ receiver' = [pc |-> "loop"]
            /\ player' = [pc |-> "prebuffer", saw_eos |-> FALSE, session |-> app.plays]
            /\ old_player' = player
    /\ UNCHANGED <<senderVars, netVars, serverVars, tool, hist>>

\* stop_video up to its reliable STOP (lines 276-283), or through the branch
\* that sends nothing
StopVideo ==
    /\ UNCHANGED lockVars
    /\ app.pc \in {"idle", "started"}
    /\ UNCHANGED <<stream_ended, expected_frame_id, conn_id, total_frames,
                   frame_queue, metrics, receiver, player, old_player>>
    /\ IF stream_ended
       THEN /\ is_receiving' = FALSE
            /\ is_playing' = FALSE
            /\ app' = [app EXCEPT !.pc = "ended_join"]
            /\ UNCHANGED <<senderVars, netVars, serverVars, hist, tool>>
       ELSE IF is_receiving \/ is_playing
       THEN /\ StartCall(CMD_STOP, <<>>)
            /\ app' = [app EXCEPT !.pc = "stop"]
            /\ UNCHANGED <<is_receiving, is_playing>>
       ELSE /\ app' = [app EXCEPT !.pc = "idle"]      \* return False
            /\ UNCHANGED <<is_receiving, is_playing, senderVars, netVars,
                           serverVars, hist, tool>>

\* stop_video once send_reliable_command has returned (lines 284-289)
StopVideoReturn ==
    /\ UNCHANGED lockVars
    /\ app.pc = "stop"
    /\ call.pc = "ret"
    /\ is_receiving' = FALSE
    /\ is_playing' = FALSE
    /\ app' = [app EXCEPT !.pc = "stop_join"]
    /\ UNCHANGED <<senderVars, netVars, serverVars, tool, hist, stream_ended,
                   expected_frame_id, conn_id, total_frames, frame_queue, metrics,
                   receiver, player, old_player>>

\* lines 298-310: the joins return, the thread ended or 0.1 s went by;
\* return True
StopVideoJoin ==
    /\ UNCHANGED lockVars
    /\ app.pc \in {"stop_join", "ended_join"}
    /\ app' = [app EXCEPT !.pc = "idle"]
    /\ metrics' = IF player.pc \in {"off", "done"}      \* not is_alive()
                  THEN set_playback_end(metrics, app.plays) ELSE metrics
    /\ UNCHANGED <<senderVars, netVars, serverVars, tool, hist, is_playing,
                   is_receiving, stream_ended, expected_frame_id, conn_id,
                   total_frames, frame_queue, receiver, player, old_player>>

\* udp_receiver, line 316: while self.is_receiving
ReceiverCheck ==
    /\ UNCHANGED lockVars
    /\ receiver.pc = "loop"
    /\ receiver' = [pc |-> IF is_receiving THEN "recv" ELSE "done"]
    /\ UNCHANGED <<senderVars, netVars, serverVars, tool, hist, is_playing, is_receiving,
                   stream_ended, expected_frame_id, conn_id, total_frames, frame_queue,
                   metrics, player, old_player, app>>

\* What the receiver does with one datagram (lines 321-403):
\* <<stream_ended, conn_id, metrics, frame_queue, next position>>
Receive(packet) ==
    LET same(pc) == <<stream_ended, conn_id, metrics, frame_queue, pc>>
        lost(c) == <<stream_ended, c, record_loss(metrics), frame_queue, "loop">>
        frame_id == UnpackU32(packet, 4)
        data_len == UnpackU32(packet, 12)
        checksum == UnpackU32(packet, 16)
        compressed_data == SubSeq(packet, DATA_PACKET_HEADER_SIZE + 1, Len(packet))
        latched == IF conn_id = None THEN Some(UnpackU32(packet, 0)) ELSE conn_id IN
    IF Len(packet) >= 5 /\ packet[1] = 10
    THEN same("loop")
    ELSE IF Len(packet) = DATA_PACKET_HEADER_SIZE /\ frame_id = END_OF_STREAM_FRAME_ID
    THEN <<TRUE, conn_id, metrics, frame_queue, "eos_put">>
    ELSE IF Len(packet) > CONTROL_PACKET_HEADER_SIZE
               /\ Len(packet) >= DATA_PACKET_HEADER_SIZE
    THEN IF Word(Len(compressed_data)) # data_len THEN lost(conn_id)
         ELSE IF adler32(compressed_data) # checksum THEN lost(conn_id)
         ELSE IF latched # Some(UnpackU32(packet, 0)) THEN lost(conn_id)
         ELSE IF ~CanDecompress(compressed_data) THEN lost(latched)
         ELSE <<stream_ended, latched, record_frame(metrics, Len(packet)),
                heappush(frame_queue, <<frame_id, decompress(compressed_data)>>), "loop">>
    ELSE same("loop")

\* line 319: recvfrom returns a datagram
ReceiverRecv ==
    /\ UNCHANGED lockVars
    /\ receiver.pc = "recv"
    /\ cli_sock # <<>>
    /\ cli_sock' = Tail(cli_sock)
    /\ LET r == Receive(Head(cli_sock)) IN
       /\ stream_ended' = r[1]
       /\ conn_id' = r[2]
       /\ metrics' = r[3]
       /\ frame_queue' = r[4]
       /\ receiver' = [pc |-> r[5]]
    /\ UNCHANGED <<senderVars, srv_sock, envVars, serverVars, tool, hist, is_playing,
                   is_receiving, expected_frame_id, total_frames, player, old_player, app>>

\* line 405: socket.timeout
ReceiverTimeout ==
    /\ UNCHANGED lockVars
    /\ receiver.pc = "recv"
    /\ cli_sock = <<>>
    /\ receiver' = [pc |-> "loop"]
    /\ UNCHANGED <<senderVars, netVars, serverVars, tool, hist, is_playing, is_receiving,
                   stream_ended, expected_frame_id, conn_id, total_frames, frame_queue,
                   metrics, player, old_player, app>>

\* line 341: the end-of-stream entry goes into the queue
ReceiverPutEos ==
    /\ UNCHANGED lockVars
    /\ receiver.pc = "eos_put"
    /\ frame_queue' = heappush(frame_queue, <<END_OF_STREAM_FRAME_ID, <<>>>>)
    /\ receiver' = [pc |-> "eos_flag"]
    /\ UNCHANGED <<senderVars, netVars, serverVars, tool, hist, is_playing, is_receiving,
                   stream_ended, expected_frame_id, conn_id, total_frames, metrics,
                   player, old_player, app>>

\* A receiver that goes on receiving after the end-of-stream marker.
ReceiverGoesOn ==
    /\ UNCHANGED lockVars
    /\ receiver.pc = "eos_flag"
    /\ receiver' = [pc |-> "loop"]
    /\ UNCHANGED <<senderVars, netVars, serverVars, tool, hist, is_playing,
                   is_receiving, stream_ended, expected_frame_id, conn_id,
                   total_frames, frame_queue, metrics, player, old_player, app>>

\* lines 343-344: is_receiving = False, break
ReceiverEnd ==
    /\ UNCHANGED lockVars
    /\ receiver.pc = "eos_flag"
    /\ is_receiving' = FALSE
    /\ receiver' = [pc |-> "done"]
    /\ UNCHANGED <<senderVars, netVars, serverVars, tool, hist, is_playing,
                   stream_ended, expected_frame_id, conn_id, total_frames, frame_queue,
                   metrics, player, old_player, app>>

\* video_player without the wait of lines 428-432
video_player_no_prebuffer(self, self2) ==
    /\ UNCHANGED lockVars
    /\ self.pc = "prebuffer"
    /\ self2 = [self EXCEPT !.pc = "loop"]
    /\ metrics' = set_playback_start(metrics, self.session)
    /\ UNCHANGED <<senderVars, netVars, serverVars, tool, hist, is_playing, is_receiving,
                   stream_ended, expected_frame_id, conn_id, total_frames, frame_queue,
                   receiver, app>>

\* video_player, lines 428-432: the pre-buffering wait is over.  self is the
\* thread's position before the step and self2 its position after it.
video_player_prebuffer(self, self2) ==
    /\ UNCHANGED lockVars
    /\ self.pc = "prebuffer"
    /\ ~(is_receiving /\ Len(frame_queue) < PrebufferFrames)
    /\ self2 = [self EXCEPT !.pc = "loop"]
    /\ metrics' = set_playback_start(metrics, self.session)
    /\ UNCHANGED <<senderVars, netVars, serverVars, tool, hist, is_playing, is_receiving,
                   stream_ended, expected_frame_id, conn_id, total_frames, frame_queue,
                   receiver, app>>

\* lines 447-503: one pass of the playback loop
video_player_loop(self, self2) ==
    /\ UNCHANGED lockVars
    /\ self.pc = "loop"
    /\ UNCHANGED <<senderVars, netVars, serverVars, tool, is_receiving, conn_id,
                   total_frames, receiver, app>>
    /\ IF ~(is_playing \/ frame_queue # <<>>)
       THEN /\ self2 = [self EXCEPT !.pc = "finish"]
            /\ UNCHANGED <<is_playing, stream_ended, expected_frame_id, frame_queue,
                           metrics, hist>>
       ELSE IF frame_queue = <<>>
       THEN /\ self2 = [self EXCEPT !.pc = "empty"]
            /\ UNCHANGED <<is_playing, stream_ended, expected_frame_id, frame_queue,
                           metrics, hist>>
       ELSE LET got == heappop(frame_queue)
                frame_id == got[1][1]
                frame_data == got[1][2] IN
            /\ frame_queue' = got[2]
            /\ IF frame_id = END_OF_STREAM_FRAME_ID
               THEN /\ stream_ended' = TRUE
                    /\ is_playing' = FALSE
                    /\ self2 = [self EXCEPT !.pc = "finish", !.saw_eos = TRUE]
                    /\ hist' = [hist EXCEPT !.extracted = Append(@, frame_id)]
                    /\ UNCHANGED <<expected_frame_id, metrics>>
               ELSE IF frame_id # expected_frame_id
               THEN /\ metrics' = record_loss(metrics)
                    /\ expected_frame_id' = WordSucc(frame_id)
                    /\ hist' = [hist EXCEPT !.extracted = Append(@, frame_id)]
                    /\ self2 = self
                    /\ UNCHANGED <<is_playing, stream_ended>>
               ELSE /\ metrics' = record_delivery(metrics, Len(frame_data))
                    /\ expected_frame_id' = WordSucc(expected_frame_id)
                    /\ hist' = [hist EXCEPT !.extracted = Append(@, frame_id),
                                            !.played = Append(@, frame_id)]
                    /\ self2 = self
                    /\ UNCHANGED <<is_playing, stream_ended>>

\* lines 506-510: the queue was empty; leave if the stream has ended
video_player_empty(self, self2) ==
    /\ UNCHANGED lockVars
    /\ self.pc = "empty"
    /\ self2 = [self EXCEPT !.pc = IF stream_ended THEN "finish" ELSE "loop"]
    /\ UNCHANGED <<senderVars, netVars, serverVars, tool, hist, is_playing, is_receiving,
                   stream_ended, expected_frame_id, conn_id, total_frames, frame_queue,
                   metrics, receiver, app>>

\* lines 520-529: the thread ends
video_player_finish(self, self2) ==
    /\ UNCHANGED lockVars
    /\ self.pc = "finish"
    /\ is_playing' = FALSE
    /\ is_receiving' = FALSE
    /\ self2 = [self EXCEPT !.pc = "done"]
    /\ metrics' = set_playback_end(metrics, self.session)
    /\ UNCHANGED <<senderVars, netVars, serverVars, tool, hist, stream_ended,
                   expected_frame_id, conn_id, total_frames, frame_queue,
                   receiver, app>>

\* the steps of the thread that self.player_thread refers to
PlayerPrebuffer == video_player_prebuffer(player, player') /\ UNCHANGED old_player

PlayerLoop == video_player_loop(player, player') /\ UNCHANGED old_player

PlayerEmpty == video_player_empty(player, player') /\ UNCHANGED old_player

PlayerFinish == video_player_finish(player, player') /\ UNCHANGED old_player

\* the steps of the thread started by the play_video before: play_video
\* overwrites self.player_thread (line 266) without waiting for it
OldPlayerPrebuffer == video_player_prebuffer(old_player, old_player') /\ UNCHANGED player

OldPlayerLoop == video_player_loop(old_player, old_player') /\ UNCHANGED player

OldPlayerEmpty == video_player_empty(old_player, old_player') /\ UNCHANGED player

OldPlayerFinish == video_player_finish(old_player, old_player') /\ UNCHANGED player

\* ------------------------------------------- chunk_video and verify_chunks
\* A source file: len bytes, the byte at offset p is (p * step) mod 256.
SourceByte(f, p) == (p * f.step) % 256

FileBytes(f) == [p \in 1..f.len |-> SourceByte(f, p - 1)]

NoTool == [pc |-> "none", file |-> [len |-> 0, step |-> 0], chunk_count |-> 0,
           result |-> "none"]

\* the decimal digits of n, as character codes
RECURSIVE Digits(_)
Digits(n) ==
    IF n < 10 THEN <<48 + n>> ELSE Append(Digits(n \div 10), 48 + (n % 10))

\* format spec 0<width>d: zeros in front up to the width, never a cut
RECURSIVE ZeroPad(_, _)
ZeroPad(s, width) == IF Len(s) >= width THEN s ELSE ZeroPad(<<48>> \o s, width)

\* f'chunk_{chunk_count:05d}.bin'
ChunkName(chunk_count) ==
    <<99, 104, 117, 110, 107, 95>> \o ZeroPad(Digits(chunk_count), CHUNK_NAME_WIDTH)
        \o <<46, 98, 105, 110>>

\* CHUNKS_DIR after chunk_video wrote chunk_count files for file f, as
\* os.listdir gives it: file k holds the k-th block of CHUNK_SIZE bytes.
ChunksDir(f, chunk_count) ==
    [k \in 1..chunk_count |->
        [name |-> ChunkName(k - 1),
         data |-> [i \in 1..(Min(k * ChunkSize, f.len) - (k - 1) * ChunkSize) |->
                      SourceByte(f, (k - 1) * ChunkSize + i - 1)]]]

\* chunk_video(): the read loop runs until read() returns nothing
chunk_video ==
    /\ UNCHANGED lockVars
    /\ tool.pc = "start"
    /\ tool' = [tool EXCEPT !.pc = "chunked",
                            !.chunk_count = (tool.file.len + ChunkSize - 1) \div ChunkSize]
    /\ UNCHANGED <<senderVars, netVars, serverVars, clientVars, hist>>

\* chunk_files.sort(): Python's order on str
NameLess(a, b) == BytesLess(a.name, b.name)

\* outfile.write(infile.read()) for each file of the list from lo to hi
RECURSIVE Stitch(_, _, _)
Stitch(chunk_files, lo, hi) ==
    IF lo > hi THEN <<>>
    ELSE IF lo = hi THEN chunk_files[lo].data
    ELSE LET mid == (lo + hi) \div 2 IN
         Stitch(chunk_files, lo, mid) \o Stitch(chunk_files, mid + 1, hi)

\* verify_chunks(): equal MD5 digests are taken as equal contents
verify_chunks ==
    /\ UNCHANGED lockVars
    /\ tool.pc = "chunked"
    /\ \E chunk_files \in {SortSeq(ChunksDir(tool.file, tool.chunk_count), NameLess)} :
         tool' = [tool EXCEPT
                    !.pc = "verified",
                    !.result = IF chunk_files = <<>> THEN "none"
                               ELSE IF Stitch(chunk_files, 1, Len(chunk_files))
                                          = FileBytes(tool.file)
                               THEN "SUCCESS" ELSE "FAILURE"]
    /\ UNCHANGED <<senderVars, netVars, serverVars, clientVars, hist>>

\* ----------------------------------------------------- the control channel
\* no video_player thread has been started
NoPlayer == [pc |-> "off", saw_eos |-> FALSE, session |-> 0]

ConnIds == { <<2560, 0>>,      \* 0x0A000000: the first byte is 10
             <<258, 772>> }    \* 0x01020304

ZeroCounts == [k \in Seqs |-> 0]

\* Nothing has happened yet.
NoHist ==
    [executed |-> ZeroCounts, acks_delivered |-> ZeroCounts, handled |-> <<>>,
     arrivals |-> <<>>, extracted |-> <<>>, played |-> <<>>,
     assigned |-> <<>>, expected |-> NewMetrics]

\* Every object of both programs as its constructor leaves it.
InitProgram ==
    /\ sender_lock = None
    /\ seq_num = 0
    /\ call = IdleCall
    /\ srv_sock = <<>>
    /\ cli_sock = <<>>
    /\ env_sent = 0
    /\ stream_thread = None
    /\ current_client_addr = None
    /\ has_active_stream = FALSE
    /\ listener = [pc |-> "recv", pkt |-> <<>>, total |-> None]
    /\ streamers = <<>>
    /\ conn_hash = <<258, 772>>
    /\ is_playing = FALSE
    /\ is_receiving = FALSE
    /\ stream_ended = FALSE
    /\ expected_frame_id = Word(0)
    /\ conn_id = None
    /\ total_frames = 0
    /\ frame_queue = <<>>
    /\ metrics = NewMetrics
    /\ receiver = [pc |-> "off"]
    /\ player = NoPlayer
    /\ old_player = NoPlayer
    /\ app = [pc |-> "idle", name |-> <<>>, plays |-> 0]
    /\ tool = NoTool
    /\ hist = NoHist

\* No thread is inside a locked section.
NoThreads == <<>>

\* Both programs just constructed, nothing sent yet.
InitIdle ==
    /\ threads = NoThreads
    /\ InitProgram

InitCtrl ==
    /\ InitIdle
    /\ net_lossy = TRUE

NextCtrl ==
    \/ \E c \in CtrlCommands : CallStart(c[1], c[2])
    \/ CallSend
    \/ CallRecv
    \/ CallTimeout
    \/ ListenerRecv
    \/ ListenerJoin
    \/ ListenerAck
    \/ \E i \in 1..Len(streamers) : StreamerCheck(i)
    \/ \E i \in 1..Len(streamers) : StreamerRead(i)
    \/ \E i \in 1..Len(streamers) : StreamerSend(i)
    \/ \E i \in 1..Len(streamers) : StreamerEos(i)
    \/ \E i \in 1..Len(streamers) : StreamerExit(i)

SpecCtrl == InitCtrl /\ [][NextCtrl]_vars

\* ------------------------------------------------- the sender on its own
\* send_reliable_command against a peer that may answer anything, on a socket
\* whose sendto and recvfrom may raise: the datagrams that can turn up on the
\* client's socket.
Replies ==
    UNION { { Pack_BI(ACK_TYPE, Word(k)),              \* acknowledgment
              Pack_BII(ACK_TYPE, Word(k), Word(1)),    \* ... with metadata
              Pack_BI(CMD_STOP, Word(k)) }             \* another type
            : k \in Seqs }
      \cup { DataPacket(c, Word(0), 0, compress(<<3>>)) : c \in ConnIds }
      \cup { <<ACK_TYPE, 0>> }                          \* shorter than 5 bytes

\* One datagram at a time: every recvfrom of the sender can still return any
\* of them, before, during and between calls.
EnvReply(d) ==
    /\ UNCHANGED lockVars
    /\ cli_sock = <<>>
    /\ cli_sock' = Append(cli_sock, d)
    /\ env_sent' = env_sent
    /\ UNCHANGED <<senderVars, srv_sock, net_lossy, serverVars, hist, clientVars, tool>>

InitSender ==
    /\ InitIdle
    /\ net_lossy = FALSE

NextSender ==
    \/ \E c \in CtrlCommands : CallStart(c[1], c[2])
    \/ CallSend
    \/ CallRecv
    \/ CallTimeout
    \/ CallError
    \/ \E d \in Replies : EnvReply(d)

SpecSender == InitSender /\ [][NextSender]_vars

\* ------------------------------------------------- the server on its own
\* The server with a peer that sends it control datagrams of its choosing,
\* one sequence number after the other, over a network that loses nothing.
ControlPacket(cmd_type, seq, payload) ==
    Pack_BII(cmd_type, Word(seq), Word(Len(payload))) \o payload

EnvCommand(c) ==
    /\ UNCHANGED lockVars
    /\ env_sent < MaxCmds
    /\ env_sent' = env_sent + 1
    /\ srv_sock' = Append(srv_sock, ControlPacket(c[1], env_sent, c[2]))
    /\ UNCHANGED <<senderVars, cli_sock, net_lossy, serverVars, hist, clientVars, tool>>

InitServer ==
    /\ InitIdle
    /\ net_lossy = FALSE

NextServer ==
    \/ \E c \in Commands : EnvCommand(c)
    \/ ListenerRecv
    \/ ListenerJoin
    \/ ListenerAck
    \/ \E i \in 1..Len(streamers) : StreamerCheck(i)
    \/ \E i \in 1..Len(streamers) : StreamerRead(i)
    \/ \E i \in 1..Len(streamers) : StreamerSend(i)
    \/ \E i \in 1..Len(streamers) : StreamerEos(i)
    \/ \E i \in 1..Len(streamers) : StreamerExit(i)

SpecServer == InitServer /\ [][NextServer]_vars

\* --------------------------------------------- the reorder buffer on its own
\* Entries with distinct frame ids are put in any order; once the first one
\* has been taken out nothing more is put.
QueuePut(id) ==
    /\ UNCHANGED lockVars
    /\ hist.extracted = <<>>
    /\ \A i \in 1..Len(hist.arrivals) : hist.arrivals[i] # Word(id)
    /\ frame_queue' = heappush(frame_queue, <<Word(id), <<id>>>>)
    /\ hist' = [hist EXCEPT !.arrivals = Append(@, Word(id))]
    /\ UNCHANGED <<senderVars, netVars, serverVars, tool, is_playing, is_receiving,
                   stream_ended, expected_frame_id, conn_id, total_frames, metrics,
                   receiver, player, old_player, app>>

QueueGet ==
    /\ UNCHANGED lockVars
    /\ frame_queue # <<>>
    /\ frame_queue' = heappop(frame_queue)[2]
    /\ hist' = [hist EXCEPT !.extracted = Append(@, heappop(frame_queue)[1][1])]
    /\ UNCHANGED <<senderVars, netVars, serverVars, tool, is_playing, is_receiving,
                   stream_ended, expected_frame_id, conn_id, total_frames, metrics,
                   receiver, player, old_player, app>>

InitQueue ==
    /\ InitIdle
    /\ net_lossy = FALSE

NextQueue ==
    \/ \E id \in 0..(MaxIds - 1) : QueuePut(id)
    \/ QueueGet

SpecQueue == InitQueue /\ [][NextQueue]_vars

\* ------------------------------------ receiver and player in a live session
\* The client right after play_video returned True, and a network that hands
\* the receiver datagrams of any kind, one at a time.
\* a payload changed after its checksum was computed: last byte off by one
Damaged(compressed) ==
    [compressed EXCEPT ![Len(compressed)] = (@ + 1) % 256]

\* a data packet with the header computed over `sealed` and the bytes `carried`
Forged(conn, frame_id, sealed, carried) ==
    SubSeq(DataPacket(conn, frame_id, 0, sealed), 1, DATA_PACKET_HEADER_SIZE) \o carried

\* Frame 0 of asset "a" with its payload replaced after the header was built:
\* one byte changed, another stream of the same length, a shorter stream.
MutatedArrivals ==
    { Forged(c, Word(0), compress(<<0, 48>>), x)
        : c \in ConnIds,
          x \in { Damaged(compress(<<0, 48>>)), compress(<<224, 93>>), compress(<<3>>) } }

\* Frame 0 of asset "a" cut off inside its header: 12 bytes
Truncated ==
    SubSeq(DataPacket(<<258, 772>>, Word(0), 0, compress(<<0, 48>>)), 1, 12)

Arrivals ==
    { DataPacket(c, Word(k), k, compress(<<0, 48>>)) : c \in ConnIds, k \in 0..MaxFrameId }
      \cup MutatedArrivals
      \cup { EndOfStreamPacket(<<258, 772>>), Pack_BI(ACK_TYPE, Word(0)) }
      \cup { EndOfStreamPacket(<<772, 258>>) }      \* the marker of another stream
      \cup { Truncated }

EnvDatagram(d) ==
    /\ UNCHANGED lockVars
    /\ env_sent < MaxArrivals
    /\ cli_sock = <<>>
    /\ env_sent' = env_sent + 1
    /\ cli_sock' = <<d>>
    /\ UNCHANGED <<senderVars, srv_sock, net_lossy, serverVars, clientVars, tool, hist>>

InitPlayer ==
    /\ sender_lock = None
    /\ threads = NoThreads
    /\ seq_num = 1
    /\ call = [IdleCall EXCEPT !.pc = "ret", !.cmd_type = CMD_PLAY, !.ok = TRUE,
                               !.tx = 1,
                               !.packet = ControlPacket(CMD_PLAY, 0, PlayPayload(AssetA)),
                               !.got = AckPacket(Word(0), Some(TotalChunks(AssetA))),
                               !.total_chunks = Some(Word(TotalChunks(AssetA)))]
    /\ srv_sock = <<>>
    /\ cli_sock = <<>>
    /\ net_lossy = FALSE
    /\ env_sent = 0
    /\ stream_thread = None
    /\ current_client_addr = None
    /\ has_active_stream = FALSE
    /\ listener = [pc |-> "recv", pkt |-> <<>>, total |-> None]
    /\ streamers = <<>>
    /\ conn_hash = <<258, 772>>
    /\ is_playing = TRUE
    /\ is_receiving = TRUE
    /\ stream_ended = FALSE
    /\ expected_frame_id = Word(0)
    /\ conn_id = None
    /\ total_frames = TotalChunks(AssetA)
    /\ frame_queue = <<>>
    /\ metrics = NewMetrics
    /\ receiver = [pc |-> "loop"]
    /\ player = [pc |-> "prebuffer", saw_eos |-> FALSE, session |-> 1]
    /\ old_player = NoPlayer
    /\ app = [pc |-> "started", name |-> AssetA, plays |-> 1]
    /\ tool = NoTool
    /\ hist = NoHist

NextPlayer ==
    \/ \E d \in Arrivals : EnvDatagram(d)
    \/ ReceiverCheck
    \/ ReceiverRecv
    \/ ReceiverTimeout
    \/ ReceiverPutEos
    \/ ReceiverEnd
    \/ PlayerPrebuffer
    \/ PlayerLoop
    \/ PlayerEmpty
    \/ PlayerFinish

SpecPlayer == InitPlayer /\ [][NextPlayer]_vars

\* The receiver and the player are threads of their own that poll: the
\* receiver's recvfrom has a timeout, the player sleeps 10 ms between two looks
\* at the queue.  Each of them goes on taking steps whatever the peer sends.
FairThreads ==
    /\ WF_vars(ReceiverCheck)
    /\ WF_vars(ReceiverRecv)
    /\ WF_vars(ReceiverTimeout)
    /\ WF_vars(ReceiverPutEos)
    /\ WF_vars(ReceiverEnd)
    /\ WF_vars(PlayerPrebuffer)
    /\ WF_vars(PlayerLoop)
    /\ WF_vars(PlayerEmpty)
    /\ WF_vars(PlayerFinish)

SpecPlayerFair == InitPlayer /\ [][NextPlayer]_vars /\ FairThreads

\* --------------------------------------------- commands that cannot succeed
\* A live session whose server has gone silent on the control channel: frames
\* and the end-of-stream marker may still arrive, and a late copy of the
\* acknowledgment of the PLAY that opened the session, but no acknowledgment
\* of a later command; sendto and recvfrom may raise.
LateArrivals ==
    { DataPacket(<<258, 772>>, Word(0), 0, compress(<<0, 48>>)),
      EndOfStreamPacket(<<258, 772>>),
      AckPacket(Word(0), Some(TotalChunks(AssetA))) }

InitFail == InitPlayer

NextFail ==
    \/ \E d \in LateArrivals : EnvDatagram(d)
    \/ \E name \in {AssetA} : PlayVideo(name)
    \/ PlayVideoReturn
    \/ StopVideo
    \/ StopVideoReturn
    \/ StopVideoJoin
    \/ CallSend
    \/ CallRecv
    \/ CallTimeout
    \/ CallError
    \/ ReceiverCheck
    \/ ReceiverRecv
    \/ ReceiverTimeout
    \/ ReceiverPutEos
    \/ ReceiverEnd
    \/ PlayerPrebuffer
    \/ PlayerLoop
    \/ PlayerEmpty
    \/ PlayerFinish

SpecFail == InitFail /\ [][NextFail]_vars

\* ------------------------------------------------------- STOP while streaming
\* The state in which play_video("a") has just returned True: the server has
\* handled and acknowledged the PLAY, its Streamer has been started and has
\* sent nothing yet, the receiver and the player have been started.  The
\* network loses nothing.  h is the value of hash(client address) & 0xFFFFFFFF
\* in the server's process.
SessionStarted(h) ==
    /\ sender_lock = None
    /\ threads = NoThreads
    /\ seq_num = 1
    /\ call = [IdleCall EXCEPT !.pc = "ret", !.cmd_type = CMD_PLAY, !.ok = TRUE,
                               !.tx = 1, !.delivered = 1,
                               !.packet = ControlPacket(CMD_PLAY, 0, PlayPayload(AssetA)),
                               !.got = AckPacket(Word(0), Some(TotalChunks(AssetA))),
                               !.total_chunks = Some(Word(TotalChunks(AssetA)))]
    /\ srv_sock = <<>>
    /\ cli_sock = <<>>
    /\ net_lossy = FALSE
    /\ env_sent = 0
    /\ stream_thread = Some(1)
    /\ current_client_addr = Some(CONTROL_PORT)
    /\ has_active_stream = TRUE
    /\ listener = [pc |-> "recv", pkt |-> <<>>, total |-> None]
    /\ conn_hash = h
    /\ streamers = <<NewStreamer(CONTROL_PORT, AssetA)>>
    /\ is_playing = TRUE
    /\ is_receiving = TRUE
    /\ stream_ended = FALSE
    /\ expected_frame_id = Word(0)
    /\ conn_id = None
    /\ total_frames = TotalChunks(AssetA)
    /\ frame_queue = <<>>
    /\ metrics = NewMetrics
    /\ receiver = [pc |-> "loop"]
    /\ player = [pc |-> "prebuffer", saw_eos |-> FALSE, session |-> 1]
    /\ old_player = NoPlayer
    /\ app = [pc |-> "started", name |-> AssetA, plays |-> 1]
    /\ tool = NoTool
    /\ hist = [NoHist EXCEPT !.handled = ControlPacket(CMD_PLAY, 0, PlayPayload(AssetA)),
                             !.executed = Bump(@, 0),
                             !.acks_delivered = Bump(@, 0)]

InitStreaming == SessionStarted(<<258, 772>>)

\* stop_video at any moment of the session, against the server
NextStreaming ==
    \/ StopVideo
    \/ StopVideoReturn
    \/ StopVideoJoin
    \/ CallSend
    \/ CallRecv
    \/ CallTimeout
    \/ ListenerRecv
    \/ ListenerJoin
    \/ \E i \in 1..Len(streamers) : StreamerCheck(i)
    \/ \E i \in 1..Len(streamers) : StreamerRead(i)
    \/ \E i \in 1..Len(streamers) : StreamerSend(i)
    \/ \E i \in 1..Len(streamers) : StreamerEos(i)
    \/ \E i \in 1..Len(streamers) : StreamerExit(i)
    \/ ReceiverCheck
    \/ ReceiverRecv
    \/ ReceiverTimeout
    \/ ReceiverPutEos
    \/ ReceiverEnd
    \/ PlayerPrebuffer
    \/ PlayerLoop
    \/ PlayerEmpty
    \/ PlayerFinish

SpecStreaming == InitStreaming /\ [][NextStreaming]_vars

\* ------------------------------------------ the stream, for any connection id
\* Python salts the hash of a string per process, so the Streamer's conn_id can
\* be any 32-bit value.  The Streamer sends, the receiver and the player run;
\* nothing else writes to the client's socket.
InitDispatch == \E h \in ConnIds : SessionStarted(h)

NextDispatch ==
    \/ \E i \in 1..Len(streamers) : StreamerCheck(i)
    \/ \E i \in 1..Len(streamers) : StreamerRead(i)
    \/ \E i \in 1..Len(streamers) : StreamerSend(i)
    \/ \E i \in 1..Len(streamers) : StreamerEos(i)
    \/ \E i \in 1..Len(streamers) : StreamerExit(i)
    \/ ReceiverCheck
    \/ ReceiverRecv
    \/ ReceiverTimeout
    \/ ReceiverPutEos
    \/ ReceiverEnd
    \/ PlayerPrebuffer
    \/ PlayerLoop
    \/ PlayerEmpty
    \/ PlayerFinish

SpecDispatch == InitDispatch /\ [][NextDispatch]_vars

\* --------------------------------------------- duplicated and late frames
\* A session that receives only genuine frames of its stream, in any order and
\* any number of copies, up to MaxArrivals + 1 datagrams.
ReplayArrivals ==
    { DataPacket(<<258, 772>>, Word(k), k, compress(<<0, 48>>)) : k \in 0..MaxFrameId }

EnvFrame(d) ==
    /\ UNCHANGED lockVars
    /\ env_sent < MaxArrivals + 1
    /\ cli_sock = <<>>
    /\ env_sent' = env_sent + 1
    /\ cli_sock' = <<d>>
    /\ UNCHANGED <<senderVars, srv_sock, net_lossy, serverVars, clientVars, tool, hist>>

InitReplay == InitPlayer

NextReplay ==
    \/ \E d \in ReplayArrivals : EnvFrame(d)
    \/ ReceiverCheck
    \/ ReceiverRecv
    \/ ReceiverTimeout
    \/ PlayerPrebuffer
    \/ PlayerLoop
    \/ PlayerEmpty

SpecReplay == InitReplay /\ [][NextReplay]_vars

\* ------------------------------------------------- one session after another
\* A live session that the user may stop and follow with MaxPlays further
\* play_video calls.  The peer sends frames and the end-of-stream marker of the
\* running stream and acknowledges the command with sequence number 1: the
\* STOP, or the PLAY that follows a stop_video that had no STOP to send.
RestartArrivals ==
    { DataPacket(<<258, 772>>, Word(0), 0, compress(<<0, 48>>)),
      EndOfStreamPacket(<<258, 772>>),
      AckPacket(Word(1), Some(TotalChunks(AssetA))) }

InitRestart == InitPlayer

NextRestart ==
    \/ \E d \in RestartArrivals : EnvDatagram(d)
    \/ \E name \in {AssetA} : app.plays < 1 + MaxPlays /\ PlayVideo(name)
    \/ PlayVideoReturn
    \/ StopVideo
    \/ StopVideoReturn
    \/ StopVideoJoin
    \/ CallSend
    \/ CallRecv
    \/ CallTimeout
    \/ ReceiverCheck
    \/ ReceiverRecv
    \/ ReceiverTimeout
    \/ ReceiverPutEos
    \/ ReceiverEnd
    \/ PlayerPrebuffer
    \/ PlayerLoop
    \/ PlayerEmpty
    \/ PlayerFinish
    \/ OldPlayerPrebuffer
    \/ OldPlayerLoop
    \/ OldPlayerEmpty
    \/ OldPlayerFinish

\* Every thread of the client goes on taking steps: the receiver and the
\* players poll, send_reliable_command waits at most its timeout per attempt,
\* and play_video and stop_video go on once send_reliable_command has returned.
\* Nothing is assumed about what the user asks for or what the peer sends.
FairClient ==
    /\ FairThreads
    /\ WF_vars(OldPlayerPrebuffer)
    /\ WF_vars(OldPlayerLoop)
    /\ WF_vars(OldPlayerEmpty)
    /\ WF_vars(OldPlayerFinish)
    /\ WF_vars(CallSend)
    /\ WF_vars(CallRecv)
    /\ WF_vars(CallTimeout)
    /\ WF_vars(PlayVideoReturn)
    /\ WF_vars(StopVideoReturn)
    /\ WF_vars(StopVideoJoin)

SpecRestart == InitRestart /\ [][NextRestart]_vars /\ FairClient

\* ----------------------------------------------------------- client and server
\* One play_video, for an asset the server has or for one it does not have,
\* against the server over a network that loses, duplicates and reorders
\* nothing.
InitE2E ==
    /\ InitIdle
    /\ net_lossy = FALSE

NextE2E ==
    \/ \E name \in {AssetA, AssetMissing} : app.plays < MaxPlays /\ PlayVideo(name)
    \/ PlayVideoReturn
    \/ CallSend
    \/ CallRecv
    \/ CallTimeout
    \/ ListenerRecv
    \/ ListenerAck
    \/ \E i \in 1..Len(streamers) : StreamerCheck(i)
    \/ \E i \in 1..Len(streamers) : StreamerRead(i)
    \/ \E i \in 1..Len(streamers) : StreamerSend(i)
    \/ \E i \in 1..Len(streamers) : StreamerEos(i)
    \/ \E i \in 1..Len(streamers) : StreamerExit(i)
    \/ ReceiverCheck
    \/ ReceiverRecv
    \/ ReceiverTimeout
    \/ ReceiverPutEos
    \/ ReceiverEnd
    \/ PlayerPrebuffer
    \/ PlayerLoop
    \/ PlayerEmpty
    \/ PlayerFinish

SpecE2E == InitE2E /\ [][NextE2E]_vars

\* ------------------------------------------------ the locks on their own
\* Two threads call send_reliable_command on the same sender; only the
\* locked section of the call is followed.
InitSeq ==
    /\ InitProgram
    /\ net_lossy = FALSE
    /\ threads = [t \in Callers |-> IdleThread]

NextSeq ==
    \/ \E t \in Callers : SeqCall(t)
    \/ \E t \in Callers : SeqAcquire(t)
    \/ \E t \in Callers : SeqRead(t)
    \/ \E t \in Callers : SeqLoad(t)
    \/ \E t \in Callers : SeqStore(t)
    \/ \E t \in Callers : SeqRelease(t)

SpecSeq == InitSeq /\ [][NextSeq]_vars

\* The receiver and the player thread call the Metrics methods in any order
\* and at any time.
InitMetrics ==
    /\ InitProgram
    /\ net_lossy = FALSE
    /\ threads = [t \in Recorders |-> IdleThread]

NextMetrics ==
    \/ \E t \in Recorders : \E c \in RecorderCalls(t) : MetricsCall(t, c[1], c[2])
    \/ \E t \in Recorders : MetricsAcquire(t)
    \/ \E t \in Recorders : MetricsLoad(t)
    \/ \E t \in Recorders : MetricsStore(t)
    \/ \E t \in Recorders : MetricsRelease(t)

SpecMetrics == InitMetrics /\ [][NextMetrics]_vars

\* ------------------------------------------------ the chunk tools on their own
SourceFiles ==
    { [len |-> n, step |-> st]
        : n \in (0..MaxFileLen) \cup {ChunkSize * (BigChunks - 1) + 1}, st \in {0, 1} }

InitTool ==
    /\ sender_lock = None
    /\ threads = NoThreads
    /\ \E f \in SourceFiles :
          tool = [pc |-> "start", file |-> f, chunk_count |-> 0, result |-> "none"]
    /\ seq_num = 0
    /\ call = IdleCall
    /\ srv_sock = <<>>
    /\ cli_sock = <<>>
    /\ net_lossy = FALSE
    /\ env_sent = 0
    /\ stream_thread = None
    /\ current_client_addr = None
    /\ has_active_stream = FALSE
    /\ listener = [pc |-> "recv", pkt |-> <<>>, total |-> None]
    /\ streamers = <<>>
    /\ conn_hash = <<258, 772>>
    /\ is_playing = FALSE
    /\ is_receiving = FALSE
    /\ stream_ended = FALSE
    /\ expected_frame_id = Word(0)
    /\ conn_id = None
    /\ total_frames = 0
    /\ frame_queue = <<>>
    /\ metrics = NewMetrics
    /\ receiver = [pc |-> "off"]
    /\ player = NoPlayer
    /\ old_player = NoPlayer
    /\ app = [pc |-> "idle", name |-> <<>>, plays |-> 0]
    /\ hist = NoHist

NextTool ==
    \/ chunk_video
    \/ verify_chunks

SpecTool == InitTool /\ [][NextTool]_vars

\* C1: stop-and-wait convergence.  When a send_reliable_command call has
\* returned and an acknowledgment of its sequence number had been delivered to
\* the client's socket by then, the call returned success and the server
\* carried the command out (started or stopped a Streamer) no more than once
\* for that sequence number.
C1_StopAndWaitConvergence ==
    (call.pc = "ret" /\ call.delivered >= 1)
        => (call.ok /\ hist.executed[call.current_seq] <= 1)

\* C2: retry exhaustion.  When the call has returned and every acknowledgment
\* of its sequence number was lost (none was ever delivered to the client's
\* socket), it transmitted the command exactly 5 times and returned
\* (False, None), and the server started or stopped a Streamer for that
\* sequence number at most once.
C2_RetryExhaustion ==
    (call.pc = "ret" /\ hist.acks_delivered[call.current_seq] = 0)
        => /\ call.tx = CONTROL_MAX_RETRIES
           /\ ~call.ok
           /\ call.total_chunks = None
           /\ hist.executed[call.current_seq] <= 1

\* C3: a call that returned success received, during that call, a datagram of
\* at least 5 bytes whose first byte is the ACK type 10 and whose bytes 1..4
\* are the call's sequence number, big-endian.
C3_SuccessOnlyOnMatchingAck ==
    (call.pc = "ret" /\ call.ok)
        => /\ Len(call.got) >= 5
           /\ call.got[1] = 10
           /\ SubSeq(call.got, 2, 5) = PackU32(Word(call.current_seq))

\* The second call succeeded after a reply it did not accept.
C3_Witness ==
    call.pc = "ret" /\ call.ok /\ call.current_seq = 1 /\ call.rejects >= 1

\* A Streamer thread that is alive and can still put a data packet on the wire:
\* it holds a packet it is about to send, or it runs its loop with its stop
\* event clear.
CanEmitData(s) ==
    \/ s.pc = "send"
    \/ s.pc \in {"check", "read"} /\ ~s.stop_event

\* C9: in every reachable state at most one Streamer thread is alive and able
\* to emit data packets.
C9_AtMostOneStreamer ==
    Cardinality({ i \in 1..Len(streamers) : CanEmitData(streamers[i]) }) <= 1

\* The listener has finished handle_control_command for datagram pkt in this
\* step.
HandledNow(pkt) ==
    /\ listener'.pc = "recv"
    /\ \/ listener.pc \in {"join", "ack"} /\ pkt = listener.pkt
       \/ listener.pc = "recv" /\ srv_sock # <<>> /\ srv_sock' = Tail(srv_sock)
            /\ pkt = Head(srv_sock)

\* C10: when the server is through with a datagram that carries a full 9-byte
\* control header, it has sent an acknowledgment echoing the datagram's
\* sequence number.
C10_AlwaysAcknowledged ==
    [][ \A pkt \in {listener.pkt} \cup (IF srv_sock = <<>> THEN {} ELSE {Head(srv_sock)}) :
          (HandledNow(pkt) /\ Len(pkt) >= CONTROL_PACKET_HEADER_SIZE)
              => /\ Len(cli_sock') = Len(cli_sock) + 1
                 /\ cli_sock'[Len(cli_sock')][1] = ACK_TYPE
                 /\ SubSeq(cli_sock'[Len(cli_sock')], 2, 5) = SubSeq(pkt, 2, 5) ]_vars

\* The session of app.name is over on every side: the player thread has ended,
\* every Streamer has ended and nothing is left on the way.
SessionOver ==
    /\ app.pc = "started"
    /\ player.pc = "done"
    /\ receiver.pc = "done"
    /\ cli_sock = <<>>
    /\ streamers # <<>>
    /\ \A i \in 1..Len(streamers) : streamers[i].pc = "done"

\* C4: when an N-segment asset was streamed after a PLAY over a network that
\* loses nothing, the client has played exactly the frames 0..N-1 in ascending
\* order, has recorded no drop, and the player ended on the sentinel.
C4_EndToEnd ==
    SessionOver
        => /\ hist.played = [k \in 1..TotalChunks(app.name) |-> Word(k - 1)]
           /\ metrics.loss_count = 0
           /\ player.saw_eos

\* C5: entries with distinct frame ids put in any order come out in ascending
\* order, and each extraction returns the smallest frame id pending.
C5_ReorderInvariant ==
    /\ \A i, j \in 1..Len(hist.extracted) :
          i < j => WordLess(hist.extracted[i], hist.extracted[j])
    /\ \A i \in 1..Len(hist.extracted) : \A q \in 1..Len(frame_queue) :
          WordLess(hist.extracted[i], frame_queue[q][1])

\* Ids 3, 1, 2, 0 were put in that order and came out as 0, 1, 2, 3.
C5_Witness ==
    /\ hist.arrivals = <<Word(3), Word(1), Word(2), Word(0)>>
    /\ hist.extracted = <<Word(0), Word(1), Word(2), Word(3)>>

\* The player takes a frame out of the queue in this step and its id is above
\* the expected one.
GapStep ==
    /\ player.pc = "loop"
    /\ frame_queue # <<>>
    /\ heappop(frame_queue)[1][1] # END_OF_STREAM_FRAME_ID
    /\ WordLess(expected_frame_id, heappop(frame_queue)[1][1])
    /\ hist'.extracted # hist.extracted

\* C6: when the player extracts frame f above the expected id e, it records
\* f - e drops and the expected id becomes f + 1.
C6_GapAccounting ==
    [][ GapStep =>
          /\ metrics'.loss_count = metrics.loss_count
                + IntOf(heappop(frame_queue)[1][1]) - IntOf(expected_frame_id)
          /\ expected_frame_id' = WordSucc(heappop(frame_queue)[1][1]) ]_vars

\* C7: a data packet with a mutated payload is not put into the queue; the
\* receiver counts one loss for it and changes nothing else.
C7_ChecksumRejection ==
    [][ (receiver.pc = "recv" /\ cli_sock # <<>> /\ cli_sock' = Tail(cli_sock)
            /\ receiver'.pc # "recv" /\ Head(cli_sock) \in MutatedArrivals)
          => /\ frame_queue' = frame_queue
             /\ metrics' = [metrics EXCEPT !.loss_count = @ + 1]
             /\ UNCHANGED <<stream_ended, conn_id, is_receiving>> ]_vars

\* C8: whatever the source file, verify_chunks finds the stitched chunks equal
\* to it.
C8_RoundTrip ==
    (tool.pc = "verified" /\ tool.file.len > 0) => tool.result = "SUCCESS"


\* The payload of a PLAY datagram reads "<name> <port>" and there is no file
\* of that name.
NamesAbsentAsset(pkt) ==
    LET parts == Split(SubSeq(pkt, CONTROL_PACKET_HEADER_SIZE + 1, Len(pkt))) IN
    /\ Len(pkt) >= CONTROL_PACKET_HEADER_SIZE
    /\ pkt[1] = CMD_PLAY
    /\ Len(parts) >= 2
    /\ IsInt(parts[2])
    /\ parts[1] = AssetMissing

\* C11: resource absence.  When the server is through with a PLAY for an asset
\* that does not exist, no Streamer was created or stopped, current_client_addr
\* and has_active_stream are what they were, stream_thread still refers to the
\* stream that was alive, and the 5-byte acknowledgment of the command's
\* sequence number (no total-segment count) was sent.
C11_ResourceAbsence ==
    [][ \A pkt \in {listener.pkt} \cup (IF srv_sock = <<>> THEN {} ELSE {Head(srv_sock)}) :
          (HandledNow(pkt) /\ NamesAbsentAsset(pkt))
              => /\ streamers' = streamers
                 /\ current_client_addr' = current_client_addr
                 /\ has_active_stream' = has_active_stream
                 /\ is_alive(stream_thread) => stream_thread' = stream_thread
                 /\ cli_sock' = Append(cli_sock,
                                       <<ACK_TYPE>> \o SubSeq(pkt, 2, 5)) ]_vars

\* The server has just refused a PLAY for the absent asset while an earlier
\* stream is still running, and its plain acknowledgment is on the way.
C11_Witness ==
    /\ listener.pc = "recv"
    /\ hist.handled # <<>>
    /\ NamesAbsentAsset(hist.handled)
    /\ is_alive(stream_thread)
    /\ has_active_stream
    /\ cli_sock # <<>>
    /\ cli_sock[Len(cli_sock)] = <<ACK_TYPE>> \o SubSeq(hist.handled, 2, 5)


\* play_video or stop_video returns in this step, after its reliable command
\* failed.
ReturnsFailed ==
    /\ call.pc = "ret"
    /\ ~call.ok
    /\ app'.pc = "idle"
    /\ \/ app.pc = "play"
       \/ app.pc = "stop_join"

\* C12: when play_video or stop_video returns after its reliable command has
\* failed, is_playing and is_receiving are both false, and the operation has
\* started no receiver and no player thread.
C12_IdleOnFailure ==
    [][ /\ ReturnsFailed => (~is_playing' /\ ~is_receiving')
        /\ (app.pc \in {"play", "stop", "stop_join"} /\ app' # app /\ ~call.ok)
              => UNCHANGED <<receiver, player>> ]_vars


\* C13: when play_video gets an acknowledgment of its PLAY that carries no
\* total-segment count (the server refused the PLAY), it leaves is_playing and
\* is_receiving false and starts no receiver and no player thread.
C13_PlainAckIsFailure ==
    [][ (app.pc = "play" /\ app' # app /\ call.pc = "ret" /\ call.ok
            /\ call.total_chunks = None)
          => /\ ~is_playing' /\ ~is_receiving'
             /\ UNCHANGED <<receiver, player>> ]_vars


\* C14: in a session expected_frame_id never goes down, and a step that plays
\* a frame takes it up by exactly one.
C14_ExpectedMonotonic ==
    [][ /\ ~WordLess(expected_frame_id', expected_frame_id)
        /\ hist'.played # hist.played
              => expected_frame_id' = WordSucc(expected_frame_id) ]_vars


\* The data frames waiting in a reorder buffer.
DataEntries(q) ==
    { q[i] : i \in { j \in 1..Len(q) : q[j][1] # END_OF_STREAM_FRAME_ID } }

\* C15: once the receiver has seen the end-of-stream marker (stream_ended is
\* set), no step puts a data frame into the reorder buffer or counts one as
\* received, and a loss is only counted for a frame taken out of the buffer:
\* what is played or dropped from then on was in the buffer already.
C15_SentinelTerminal ==
    [][ stream_ended
          => /\ DataEntries(frame_queue') \subseteq DataEntries(frame_queue)
             /\ Len(frame_queue') <= Len(frame_queue) + 1
             /\ metrics'.frame_count = metrics.frame_count
             /\ metrics'.bytes_received = metrics.bytes_received
             /\ metrics'.loss_count # metrics.loss_count
                   => hist'.extracted # hist.extracted ]_vars

\* The session is over and a valid data packet that arrived after the marker
\* is still on the socket: nobody took it.
C15_Witness ==
    /\ stream_ended
    /\ receiver.pc = "done"
    /\ player.pc = "done"
    /\ player.saw_eos
    /\ hist.played # <<>>
    /\ cli_sock = << DataPacket(<<258, 772>>, Word(1), 1, compress(<<0, 48>>)) >>


\* The receiver takes a datagram in this step and admits it: a data frame goes
\* into the reorder buffer, or the end-of-stream entry is about to.
Admits ==
    /\ receiver.pc = "recv"
    /\ cli_sock # <<>>
    /\ cli_sock' = Tail(cli_sock)
    /\ frame_queue' # frame_queue \/ receiver'.pc = "eos_put"

\* C16: a datagram that produces an entry of the reorder buffer, the
\* end-of-stream entry included, has a full header, its checksum field is the
\* Adler-32 of its payload bytes, and its connection id is the one the session
\* had latched or latches with it.
C16_AdmissionInvariant ==
    [][ Admits =>
          LET packet == Head(cli_sock) IN
          /\ Len(packet) >= DATA_PACKET_HEADER_SIZE
          /\ UnpackU32(packet, 16)
                = adler32(SubSeq(packet, DATA_PACKET_HEADER_SIZE + 1, Len(packet)))
          /\ conn_id' = Some(UnpackU32(packet, 0))
          /\ conn_id # None => conn_id' = conn_id ]_vars


\* C17: the frame ids the player has taken out of the reorder buffer in a
\* session, in the order it took them, never go down.
C17_ConsumptionOrder ==
    \A i, j \in 1..Len(hist.extracted) :
        i < j => ~WordLess(hist.extracted[j], hist.extracted[i])


\* C18: a Streamer thread that has ended after stop() was called on it ended
\* by sending the end-of-stream marker (StreamerEos is the only step to "done").
C18_StopEmitsSentinel ==
    \A i \in 1..Len(streamers) :
        (streamers[i].stop_event /\ ~is_alive(Some(i))) => streamers[i].pc = "done"


\* C19: when no Metrics call is in progress, every counter holds the number
\* of calls made on it, or the sum of their arguments.
C19_NoLostUpdate ==
    (\A t \in DOMAIN threads : threads[t].pc = "idle") => metrics = hist.expected

\* Both threads have recorded a loss, the receiver a frame of 2 bytes and the
\* player a delivery of 2 bytes, and all calls are over.
C19_Witness ==
    /\ DOMAIN threads = Recorders
    /\ \A t \in Recorders : threads[t].pc = "idle" /\ threads[t].calls = 2
    /\ metrics.loss_count = 2
    /\ metrics.frame_count = 1
    /\ metrics.bytes_received = 2
    /\ metrics.bytes_delivered = 2

\* C20: the sequence numbers one sender has assigned, in the order it
\* assigned them, are strictly increasing: no number is assigned twice.
C20_SeqStrictlyIncreasing ==
    \A i, j \in 1..Len(hist.assigned) :
        i < j => hist.assigned[i] < hist.assigned[j]

\* The main thread was assigned 0 and the other thread 1; the other thread is
\* inside the locked section of its second call while the main thread waits
\* for the lock.
C20_Witness ==
    /\ DOMAIN threads = Callers
    /\ hist.assigned = <<0, 1, 2>>
    /\ sender_lock = Some("other")
    /\ threads["other"].pc = "store"
    /\ threads["other"].current_seq = 2
    /\ threads["main"].pc = "acquire"
    /\ threads["main"].current_seq = 0


\* C21: a reply that does not confirm the command (another sequence number,
\* another type, a data packet, a datagram too short) and is received while
\* the call waits for its acknowledgment leaves the call waiting in the same
\* attempt: nothing is retransmitted because of it.
C21_MismatchKeepsAttempt ==
    [][ (call.pc = "wait" /\ cli_sock # <<>> /\ cli_sock' = Tail(cli_sock)
            /\ call' # call /\ call'.rejects = call.rejects + 1)
          => /\ call'.pc = "wait"
             /\ call'.attempt = call.attempt ]_vars


\* C22: a call in which a transport error was raised is over, with the
\* result (False, None), and transmits nothing from then on.
C22_TransportErrorAborts ==
    [][ /\ call'.raised
              => (call'.pc = "ret" /\ ~call'.ok /\ call'.total_chunks = None)
        /\ (call.raised /\ call'.raised) => call'.tx = call.tx
        /\ (~call.raised /\ call'.raised)
              => (call'.tx = call.tx /\ srv_sock' = srv_sock) ]_vars

\* The second sendto of a call raised: the call returned failure after one
\* transmission, with four attempts left.
C22_Witness ==
    /\ call.raised
    /\ call.pc = "ret"
    /\ ~call.ok
    /\ call.attempt = 1
    /\ call.tx = 1


\* The listener takes a PLAY datagram off its socket in this step while some
\* Streamer thread is alive.
PlayWhileAlive ==
    /\ listener.pc = "recv"
    /\ srv_sock # <<>>
    /\ srv_sock' = Tail(srv_sock)
    /\ Len(Head(srv_sock)) >= CONTROL_PACKET_HEADER_SIZE
    /\ Head(srv_sock)[1] = CMD_PLAY
    /\ \E i \in 1..Len(streamers) : is_alive(Some(i))

\* C23: a PLAY received while a Streamer is alive creates no Streamer, stops
\* none, leaves current_client_addr as it was and is answered with the 5-byte
\* acknowledgment.
C23_PlayWhileAliveRejected ==
    [][ PlayWhileAlive
          => /\ streamers' = streamers
             /\ current_client_addr' = current_client_addr
             /\ cli_sock' = Append(cli_sock,
                                   <<ACK_TYPE>> \o SubSeq(Head(srv_sock), 2, 5)) ]_vars


\* the number of sentinels among the packets a Streamer has emitted
Sentinels(sent) == Cardinality({k \in 1..Len(sent) : sent[k] = "eos"})

TakesUnparseable ==
    /\ receiver.pc = "recv"
    /\ cli_sock # <<>>
    /\ cli_sock' = Tail(cli_sock)
    /\ LET d == Head(cli_sock) IN
       /\ ~(Len(d) >= 5 /\ d[1] = ACK_TYPE)
       /\ \/ Len(d) < DATA_PACKET_HEADER_SIZE
          \/ /\ Len(d) >= DATA_PACKET_HEADER_SIZE
             /\ UnpackU32(d, 12) # Word(Len(d) - DATA_PACKET_HEADER_SIZE)

\* C25: such a datagram is discarded and counted as exactly one loss, and the
\* receiver goes on receiving.
C25_UnparseableIsOneLoss ==
    [][ TakesUnparseable
          => /\ metrics'.loss_count = metrics.loss_count + 1
             /\ frame_queue' = frame_queue
             /\ receiver'.pc = "loop"
             /\ is_receiving' = is_receiving ]_vars


\* The receiver takes in this step a datagram with a full header whose
\* connection id is not the latched one.
TakesForeign ==
    /\ receiver.pc = "recv"
    /\ cli_sock # <<>>
    /\ cli_sock' = Tail(cli_sock)
    /\ conn_id # None
    /\ Len(Head(cli_sock)) >= DATA_PACKET_HEADER_SIZE
    /\ UnpackU32(Head(cli_sock), 0) # The(conn_id)

\* C26: once latched, conn_id keeps its value for the rest of the session,
\* and a packet that carries another connection id is counted as one loss and
\* puts nothing into frame_queue.
C26_ConnIdLatched ==
    [][ /\ conn_id # None => conn_id' = conn_id
        /\ TakesForeign
              => /\ metrics'.loss_count = metrics.loss_count + 1
                 /\ frame_queue' = frame_queue
                 /\ receiver'.pc = "loop" ]_vars


\* The player extracts in this step a frame whose id is below
\* expected_frame_id.
ExtractsStale ==
    /\ player.pc = "loop"
    /\ frame_queue # <<>>
    /\ Len(hist'.extracted) = Len(hist.extracted) + 1
    /\ WordLess(hist'.extracted[Len(hist'.extracted)], expected_frame_id)

\* C27: a frame extracted with an id below expected_frame_id changes neither
\* the counters nor expected_frame_id.
C27_StaleFrameIgnored ==
    [][ ExtractsStale
          => /\ metrics' = metrics
             /\ expected_frame_id' = expected_frame_id ]_vars


\* the condition that ends the pre-buffering wait
PrebufferOver == Len(frame_queue) >= PrebufferFrames \/ ~is_receiving

\* C28: the player leaves pre-buffering only when frame_queue holds at least
\* PrebufferFrames entries or is_receiving is false, it extracts nothing while
\* pre-buffering, and once the condition holds it leaves pre-buffering.
C28_Prebuffering ==
    /\ [][ (player.pc = "prebuffer" /\ player'.pc # "prebuffer") => PrebufferOver ]_vars
    /\ [][ hist'.extracted # hist.extracted => player.pc # "prebuffer" ]_vars
    /\ (player.pc = "prebuffer" /\ PrebufferOver) ~> (player.pc # "prebuffer")

C28_Witness ==
    /\ player.pc = "loop"
    /\ is_receiving
    /\ Len(hist.extracted) = 1
    /\ Len(frame_queue) = PrebufferFrames - 1


\* The player is in its playback loop, the session is marked receiving and has
\* not ended, and frame_queue is empty.
Starved ==
    /\ player.pc \in {"loop", "empty"}
    /\ frame_queue = <<>>
    /\ is_receiving
    /\ ~stream_ended

\* C29: when frame_queue stays empty for good while the session is marked
\* receiving and has not ended, a stall is recorded: the number of stalls that
\* print_metrics reports becomes positive.
C29_StallRecorded ==
    <>[]Starved => <>(print_metrics(metrics).total_stalls > 0)


\* The video_player thread of session n is running, and either stop_video has
\* just cleared the session flags or the end-of-stream entry is in frame_queue.
MustEnd(n) ==
    /\ player.session = n
    /\ player.pc \notin {"off", "done"}
    /\ \/ app.pc \in {"stop_join", "ended_join"}
       \/ \E k \in 1..Len(frame_queue) : frame_queue[k][1] = END_OF_STREAM_FRAME_ID

\* the video_player thread of session n has ended
Ended(n) ==
    \/ player.session = n /\ player.pc = "done"
    \/ old_player.session = n /\ old_player.pc = "done"

\* C30: once the end-of-stream entry has been admitted or stop_video has
\* cleared the flags, the video_player thread of that session ends.
C30_PlayerTerminates ==
    \A n \in 1..(1 + MaxPlays) : MustEnd(n) ~> Ended(n)


\* C31: playback_end_time is unset until the video_player thread of the
\* session has finished, playback_start_time is unset until that thread has
\* left pre-buffering, and a time that is set changes only by being reset in
\* play_video.
C31_PlaybackTimesLatched ==
    [][ /\ metrics'.playback_end_time # None => player'.pc = "done"
        /\ metrics'.playback_start_time # None
              => player'.pc \notin {"off", "prebuffer"}
        /\ \A f \in {"playback_start_time", "playback_end_time"} :
              (metrics[f] # None /\ metrics'[f] # metrics[f])
                  => (metrics'[f] = None /\ app.pc = "play") ]_vars


\* a video_player thread that has been started and has not ended
Running(th) == th.pc \notin {"off", "done"}

\* C32: at most one video_player thread of the client is running, and a
\* thread of the session before does not write the flags of the session
\* that follows it.
C32_OneSchedulerThread ==
    [][ /\ ~(Running(player') /\ Running(old_player'))
        /\ (Running(old_player) /\ old_player' # old_player)
              => (is_playing' = is_playing /\ is_receiving' = is_receiving) ]_vars


\* C33: a STOP issued while the stream is running, on a network that loses
\* nothing, does not return failure once an acknowledgment of it has been
\* delivered to the client's socket.
C33_StopSucceeds ==
    [][ (call.cmd_type = CMD_STOP /\ call.pc = "wait"
            /\ call'.pc = "ret" /\ ~call'.ok)
          => hist.acks_delivered[call.current_seq] = 0 ]_vars


\* A datagram with a full data header that is neither an acknowledgment nor an
\* end-of-stream marker is taken off the client's socket in this step, while
\* the session is receiving.
TakesDataPacket ==
    /\ is_receiving
    /\ cli_sock # <<>>
    /\ cli_sock' = Tail(cli_sock)
    /\ LET d == Head(cli_sock) IN
       /\ Len(d) > DATA_PACKET_HEADER_SIZE
       /\ d[1] # ACK_TYPE
       /\ UnpackU32(d, 4) # END_OF_STREAM_FRAME_ID

\* C34: every data packet taken off the socket while the session is receiving
\* is inserted into frame_queue or counted as exactly one loss.
C34_ReceiveAccounting ==
    [][ TakesDataPacket
          => \/ /\ Len(frame_queue') = Len(frame_queue) + 1
                /\ metrics'.loss_count = metrics.loss_count
             \/ /\ frame_queue' = frame_queue
                /\ metrics'.loss_count = metrics.loss_count + 1 ]_vars


\* C35: a packet the Streamer built is not taken for an acknowledgment: the
\* receiver admits a data packet with its frame id and payload, and takes the
\* end-of-stream packet as the end of the stream.
C35_DispatchUnambiguous ==
    [][ (receiver.pc = "recv" /\ cli_sock # <<>> /\ cli_sock' = Tail(cli_sock))
          => LET d == Head(cli_sock) IN
             IF Len(d) = DATA_PACKET_HEADER_SIZE
             THEN receiver'.pc = "eos_put"
             ELSE frame_queue' =
                    heappush(frame_queue,
                             <<UnpackU32(d, 4),
                               decompress(SubSeq(d, DATA_PACKET_HEADER_SIZE + 1,
                                                 Len(d)))>>) ]_vars


\* C36: the frame ids played in a session are strictly increasing.
C36_PlayedStrictlyIncreasing ==
    \A i \in 1..Len(hist.played) : \A j \in 1..Len(hist.played) :
        i < j => WordLess(hist.played[i], hist.played[j])


\* C37: when the server has started a Streamer for a PLAY of asset "b", the
\* acknowledgment that send_reliable_command accepts for that PLAY carries the
\* asset's total segment count.
C37_PlayMetadataConsistent ==
    ( /\ call.pc = "ret" /\ call.ok
      /\ call.cmd_type = CMD_PLAY
      /\ hist.executed[call.current_seq] > 0 )
        => call.total_chunks = Some(Word(TotalChunks(AssetB)))


\* The Streamer of stream_thread read its file to the end and has emitted the
\* end-of-stream sentinel.
EndedNaturally ==
    /\ stream_thread # None
    /\ LET s == streamers[The(stream_thread)] IN
          s.is_last /\ s.sent # <<>> /\ s.sent[Len(s.sent)] = "eos"

\* The listener takes a PLAY that names an existing asset and a port.
TakesGoodPlay ==
    /\ listener.pc = "recv"
    /\ srv_sock # <<>>
    /\ srv_sock' = Tail(srv_sock)
    /\ Len(Head(srv_sock)) >= CONTROL_PACKET_HEADER_SIZE
    /\ Head(srv_sock)[1] = CMD_PLAY
    /\ StartsStreamer(Head(srv_sock))

\* C38: once the Streamer has emitted the end-of-stream sentinel after the
\* last segment, a PLAY for an existing asset that the listener handles starts
\* a new Streamer and is acknowledged with the asset's total segment count,
\* wherever the finishing Streamer thread stands.
C38_PlayAfterNaturalEnd ==
    [][ (EndedNaturally /\ TakesGoodPlay)
          => /\ Len(streamers') = Len(streamers) + 1
             /\ stream_thread' = Some(Len(streamers'))
             /\ listener'.pc = "ack"
             /\ listener'.total = Some(TotalChunks(AssetA)) ]_vars

=============================================================================
